---------------------------- MODULE Spec2Model ----------------------------
(***************************************************************************)
(* A model of the FlexiCoach backend (src/backend): the challenge store    *)
(* (core/challenge_manager.py) behind its HTTP handlers (main.py), the     *)
(* advice collaborator (core/llm_agent.py, utils/prompt_templates.py) and  *)
(* the transaction analytics pipeline (core/data_cleaning.py,              *)
(* core/spending_classifier.py, core/budget_planner.py,                    *)
(* core/advanced_features.py, core/dynamic_features.py).                   *)
(*                                                                         *)
(* Eight specifications share one set of variables:                        *)
(*   StoreSpec       the challenge endpoints acting on the singleton store *)
(*   AdviseSpec      one /chat request, step by step                       *)
(*   AnalyzeSpec     one /analyze or /compare request, step by step        *)
(*   ClassifierSpec  classify_spending applied to small cleaned frames     *)
(*   LedgerSpec      the budget planner and the modules on cleaned frames  *)
(*                   of regular weeks of spending                          *)
(*   ConcurrentSpec  two /analyze requests interleaved with each other     *)
(*                   and with the challenge endpoints (job holds both)     *)
(*   ProfileSpec     the budget planner and the modules on cleaned frames  *)
(*                   of a few large and many small expenses                *)
(*   RaceSpec        two challenge requests for one pair in flight at a    *)
(*                   time (job holds both)                                 *)
(***************************************************************************)
EXTENDS Integers, Sequences, FiniteSets, TLC

VARIABLES
    user_challenges,  \* ChallengeManager._user_challenges: userId -> dict
    now,              \* the clock datetime.utcnow() reads
    response,         \* the last response of a challenge endpoint
    chat,             \* the /chat request in progress
    job               \* the /analyze, /compare or challenge request(s) in progress

vars == <<user_challenges, now, response, chat, job>>

(***************************************************************************)
(* Generic helpers                                                         *)
(***************************************************************************)
Range(s) == {s[i] : i \in 1..Len(s)}

Min2(a, b) == IF a <= b THEN a ELSE b

Max2(a, b) == IF a >= b THEN a ELSE b

Abs(x) == IF x < 0 THEN -x ELSE x

RECURSIVE SumSeq(_)
SumSeq(s) == IF s = <<>> THEN 0 ELSE Head(s) + SumSeq(Tail(s))

\* s restricted to the elements satisfying Test, order kept (a boolean mask).
SelectRows(s, Test(_)) == SelectSeq(s, Test)

(***************************************************************************)
(* Bounds of the model                                                     *)
(***************************************************************************)
\* Timestamps the clock can hand out (each start and each completion reads it once).
MaxClock == 3

\* Rows of an uploaded statement of everyday transactions.
MaxRows == 7

\* Calendar weeks with expenses in a ledger.
MaxWeeks == 3

\* Rows of an uploaded table of raw cells of every kind.
MaxRawRows == 2

\* Words of a transaction description handed to the Classifier.
MaxWords == 2


(***************************************************************************)
(* The challenge store: core/challenge_manager.py                          *)
(***************************************************************************)
UserIds == {"u1", "u2"}

ChallengeIds == {"no_spend_days", "daily_limit"}

\* ChallengeStatus
NOT_STARTED == "not_started"

ACTIVE == "active"

COMPLETED == "completed"

\* The target of the daily_limit challenge generate_smart_challenges emits.
DailyLimitTarget == 7

\* The values a definition carries under 'target' when it has the key
\* (without it the target defaults to 0).
Targets == {DailyLimitTarget}

\* The currentValue inputs of a progress request: below the target 7, at it,
\* and (for the default target 0) at and above it.
ProgressValues == {0, DailyLimitTarget}

\* Optional[str] = None for startedAt / completedAt: no timestamp.
None == 0

\* challengeData: Dict[str, Any].  target holds the value under key 'target'
\* when the key is present (at most one), wellTyped says whether every field
\* the UserChallenge model reads validates against its declared type.
ChallengeData == [target : {<<>>} \cup {<<t>> : t \in Targets}, wellTyped : BOOLEAN]

\* challenge_data.get('target', 0)
GetTarget(challenge_data) ==
    IF challenge_data.target = <<>> THEN 0 ELSE challenge_data.target[1]

\* A Python dict as the sequence of its (key, value) entries in insertion order.
DictKeys(d) == {d[i].key : i \in 1..Len(d)}

DictHas(d, k) == k \in DictKeys(d)

DictGet(d, k) == (CHOOSE i \in 1..Len(d) : d[i].key = k) \* index of k
DictVal(d, k) == d[DictGet(d, k)].val

\* d[k] = v: in place for a key already present, appended otherwise.
DictSet(d, k, v) ==
    IF DictHas(d, k)
    THEN [d EXCEPT ![DictGet(d, k)] = [key |-> k, val |-> v]]
    ELSE Append(d, [key |-> k, val |-> v])

\* del d[k]
DictDel(d, k) == SelectSeq(d, LAMBDA e : e.key # k)

\* list(d.values())
DictValues(d) == [i \in 1..Len(d) |-> d[i].val]

\* EnsureUser without its membership test: the user's dict is always reset.
EnsureUser_Always(uc, user_id) ==
    [u \in DOMAIN uc \cup {user_id} |-> IF u = user_id THEN <<>> ELSE uc[u]]

\* self._user_challenges[user_id] = {} when the user has no dict yet.
EnsureUser(uc, user_id) ==
    IF user_id \in DOMAIN uc
    THEN uc
    ELSE [u \in DOMAIN uc \cup {user_id} |-> IF u = user_id THEN <<>> ELSE uc[u]]

\* A record as the UserChallenge model defaults it: not started, no stamp.
NewChallenge_Defaults(user_id, challenge_id, challenge_data, t) ==
    [userId |-> user_id, challengeId |-> challenge_id, status |-> NOT_STARTED,
     current |-> 0, target |-> GetTarget(challenge_data),
     startedAt |-> None, completedAt |-> None]

\* The UserChallenge start_challenge builds.
NewChallenge(user_id, challenge_id, challenge_data, t) ==
    [userId |-> user_id, challengeId |-> challenge_id, status |-> ACTIVE,
     current |-> 0, target |-> GetTarget(challenge_data),
     startedAt |-> t, completedAt |-> None]

\* The result of a manager method: the store it leaves, what it raised
\* ("" when it returned), and the value it returned (a sequence of records).
Returned(uc, value) == [store |-> uc, raised |-> "", message |-> "", value |-> value]

Raised(uc, kind, message) ==
    [store |-> uc, raised |-> kind, message |-> message, value |-> <<>>]

\* StartBlockedBy without its second test: a completed challenge restarts.
StartBlockedBy_ActiveOnly(existing) ==
    IF existing.status = ACTIVE THEN "Challenge is already active" ELSE ""

\* StartBlockedBy without either test: a stored record never blocks a start.
StartBlockedBy_Never(existing) == ""

\* Whether start_challenge refuses because of the record already stored.
StartBlockedBy(existing) ==
    IF existing.status = ACTIVE THEN "Challenge is already active"
    ELSE IF existing.status = COMPLETED THEN "Challenge is already completed"
    ELSE ""

\* ChallengeManager.start_challenge
start_challenge(uc, user_id, challenge_id, challenge_data, t) ==
    LET uc1 == EnsureUser(uc, user_id)
        blocked == IF DictHas(uc1[user_id], challenge_id)
                   THEN StartBlockedBy(DictVal(uc1[user_id], challenge_id))
                   ELSE ""
        user_challenge == NewChallenge(user_id, challenge_id, challenge_data, t)
    IN  IF blocked # "" THEN Raised(uc1, "ValueError", blocked)
        ELSE IF ~challenge_data.wellTyped
        THEN Raised(uc1, "ValueError", "validation error for UserChallenge")
        ELSE Returned([uc1 EXCEPT ![user_id] = DictSet(@, challenge_id, user_challenge)],
                      <<user_challenge>>)

\* get_user_challenges with the status test of its second list left out.
get_user_challenges_Unfiltered(uc, user_id) ==
    IF user_id \notin DOMAIN uc
    THEN [activeChallenges |-> <<>>, completedChallenges |-> <<>>]
    ELSE LET values == DictValues(uc[user_id])
         IN  [activeChallenges |-> SelectSeq(values, LAMBDA c : c.status = ACTIVE),
              completedChallenges |-> values]

\* ChallengeManager.get_user_challenges
get_user_challenges(uc, user_id) ==
    IF user_id \notin DOMAIN uc
    THEN [activeChallenges |-> <<>>, completedChallenges |-> <<>>]
    ELSE LET values == DictValues(uc[user_id])
         IN  [activeChallenges |-> SelectSeq(values, LAMBDA c : c.status = ACTIVE),
              completedChallenges |-> SelectSeq(values, LAMBDA c : c.status = COMPLETED)]

\* Progressed with > for >=: reaching the target exactly does not complete.
Progressed_Strict(user_challenge, current_value, t) ==
    IF current_value > user_challenge.target
    THEN [user_challenge EXCEPT !.current = current_value,
                                !.status = COMPLETED, !.completedAt = t]
    ELSE [user_challenge EXCEPT !.current = current_value]

\* The record update_challenge_progress leaves for an active record.
Progressed(user_challenge, current_value, t) ==
    IF current_value >= user_challenge.target
    THEN [user_challenge EXCEPT !.current = current_value,
                                !.status = COMPLETED, !.completedAt = t]
    ELSE [user_challenge EXCEPT !.current = current_value]

\* update_challenge_progress without its status test: any stored record is
\* updated.
update_challenge_progress_AnyStatus(uc, user_id, challenge_id, current_value, t) ==
    IF user_id \notin DOMAIN uc
    THEN Raised(uc, "ValueError", "User has no challenges")
    ELSE IF ~DictHas(uc[user_id], challenge_id)
    THEN Raised(uc, "ValueError", "Challenge not found for user")
    ELSE LET updated == Progressed(DictVal(uc[user_id], challenge_id), current_value, t)
         IN  Returned([uc EXCEPT ![user_id] = DictSet(@, challenge_id, updated)],
                      <<updated>>)

\* ChallengeManager.update_challenge_progress
update_challenge_progress(uc, user_id, challenge_id, current_value, t) ==
    IF user_id \notin DOMAIN uc
    THEN Raised(uc, "ValueError", "User has no challenges")
    ELSE IF ~DictHas(uc[user_id], challenge_id)
    THEN Raised(uc, "ValueError", "Challenge not found for user")
    ELSE LET user_challenge == DictVal(uc[user_id], challenge_id)
             updated == Progressed(user_challenge, current_value, t)
         IN  IF user_challenge.status # ACTIVE
             THEN Raised(uc, "ValueError", "Can only update active challenges")
             ELSE Returned([uc EXCEPT ![user_id] = DictSet(@, challenge_id, updated)],
                           <<updated>>)

\* ChallengeManager.get_challenge: the record stored for the pair, if any.
get_challenge(uc, user_id, challenge_id) ==
    IF user_id \in DOMAIN uc /\ DictHas(uc[user_id], challenge_id)
    THEN <<DictVal(uc[user_id], challenge_id)>>
    ELSE <<>>

\* delete_challenge dropping the user's whole dict instead of one key.
delete_challenge_WholeUser(uc, user_id, challenge_id) ==
    IF user_id \in DOMAIN uc /\ DictHas(uc[user_id], challenge_id)
    THEN [store |-> [uc EXCEPT ![user_id] = <<>>], value |-> TRUE]
    ELSE [store |-> uc, value |-> FALSE]

\* ChallengeManager.delete_challenge
delete_challenge(uc, user_id, challenge_id) ==
    IF user_id \in DOMAIN uc /\ DictHas(uc[user_id], challenge_id)
    THEN [store |-> [uc EXCEPT ![user_id] = DictDel(@, challenge_id)], value |-> TRUE]
    ELSE [store |-> uc, value |-> FALSE]


(***************************************************************************)
(* Text: Python str operations on TLA+ strings                             *)
(***************************************************************************)
UpperCase == "ABCDEFGHIJKLMNOPQRSTUVWXYZ"

LowerCase == "abcdefghijklmnopqrstuvwxyz"

Digits == "0123456789"

\* The i-th character of text, as a string of length 1.
CharAt(text, i) == SubSeq(text, i, i)

\* Whether the one-character string ch occurs in the string set.
InChars(ch, set) == \E i \in 1..Len(set) : CharAt(set, i) = ch

\* The position of ch in set (ch occurs in it).
IndexIn(ch, set) == CHOOSE i \in 1..Len(set) : CharAt(set, i) = ch

LowerChar(ch) ==
    IF InChars(ch, UpperCase) THEN CharAt(LowerCase, IndexIn(ch, UpperCase)) ELSE ch

\* str.lower()
RECURSIVE Lower(_)
Lower(text) ==
    IF Len(text) = 0 THEN "" ELSE LowerChar(Head(text)) \o Lower(Tail(text))

\* str.strip(chars): leading and trailing characters of chars removed.
RECURSIVE StripChars(_, _)
StripChars(text, chars) ==
    IF Len(text) > 0 /\ InChars(Head(text), chars) THEN StripChars(Tail(text), chars)
    ELSE IF Len(text) > 0 /\ InChars(CharAt(text, Len(text)), chars)
    THEN StripChars(SubSeq(text, 1, Len(text) - 1), chars)
    ELSE text

\* keyword in text
Contains(text, keyword) ==
    \E i \in 1..(Len(text) - Len(keyword) + 1) :
        SubSeq(text, i, i + Len(keyword) - 1) = keyword

\* text.startswith(prefix), text.endswith(suffix)
StartsWith(text, prefix) ==
    Len(text) >= Len(prefix) /\ SubSeq(text, 1, Len(prefix)) = prefix

EndsWith(text, suffix) ==
    Len(text) >= Len(suffix)
    /\ SubSeq(text, Len(text) - Len(suffix) + 1, Len(text)) = suffix

\* re.sub(r'[chars]', '', text)
RECURSIVE RemoveChars(_, _)
RemoveChars(text, chars) ==
    IF Len(text) = 0 THEN ""
    ELSE (IF InChars(Head(text), chars) THEN "" ELSE Head(text))
         \o RemoveChars(Tail(text), chars)

\* Whether every character of text is a decimal digit.
AllDigits(text) == \A i \in 1..Len(text) : InChars(CharAt(text, i), Digits)

\* int(text) for a string of decimal digits ("" gives 0).
RECURSIVE DigitsValue(_)
DigitsValue(text) ==
    IF Len(text) = 0 THEN 0
    ELSE 10 * DigitsValue(SubSeq(text, 1, Len(text) - 1))
         + (IndexIn(CharAt(text, Len(text)), Digits) - 1)

(***************************************************************************)
(* Uploaded tables: what pd.read_csv hands to the pipeline                 *)
(***************************************************************************)
\* A cell is NaN (an empty field), a number (a numeric column; amounts are
\* kept in hundredths) or a text.
NaNCell == [kind |-> "nan", num |-> 0, str |-> ""]

Num(hundredths) == [kind |-> "num", num |-> hundredths, str |-> ""]

Str(text) == [kind |-> "str", num |-> 0, str |-> text]

\* A table is its column names as uploaded and its rows; a row holds one
\* cell per column.
Table(columns, rows) == [columns |-> columns, rows |-> rows]

\* df[col] of row r: the cell under the column named col.
Cell(df, r, col) == r[CHOOSE i \in 1..Len(df.columns) : df.columns[i] = col]

(***************************************************************************)
(* utils/helpers.py                                                        *)
(***************************************************************************)
\* re.sub(r'[^a-z0-9]+', '_', text): each run of other characters becomes
\* one underscore.
RECURSIVE SubNonAlnum(_, _)
SubNonAlnum(text, inRun) ==
    IF Len(text) = 0 THEN ""
    ELSE IF InChars(Head(text), LowerCase \o Digits)
    THEN Head(text) \o SubNonAlnum(Tail(text), FALSE)
    ELSE (IF inRun THEN "" ELSE "_") \o SubNonAlnum(Tail(text), TRUE)

\* The new name normalize_column_names gives one column.
NormalizeName(col) ==
    StripChars(SubNonAlnum(StripChars(Lower(col), " "), FALSE), "_")

\* A variant that lower-cases the names and leaves the rest of them alone.
normalize_column_names_CaseOnly(df) ==
    [df EXCEPT !.columns = [i \in 1..Len(df.columns) |-> Lower(df.columns[i])]]

\* normalize_column_names
normalize_column_names(df) ==
    [df EXCEPT !.columns = [i \in 1..Len(df.columns) |-> NormalizeName(df.columns[i])]]

\* find_matching_column: the column found as <<name>>, or <<>> for None.
RECURSIVE find_matching_column(_, _)
find_matching_column(df, possible_names) ==
    IF possible_names = <<>> THEN <<>>
    ELSE LET name == Lower(Head(possible_names))
             hits == {i \in 1..Len(df.columns) : Lower(df.columns[i]) = name}
         IN  IF hits # {}
             THEN <<df.columns[CHOOSE i \in hits : \A j \in hits : i <= j]>>
             ELSE find_matching_column(df, Tail(possible_names))

\* The characters parse_amount removes from the model's texts: the dollar
\* sign, the comma and white space.  The class of its pattern holds three
\* further characters (U+00E2, U+201A, U+00B9), none of which occurs in the
\* model's texts; the rupee sign U+20B9 is not in the class.
AmountNoise == "$, "

\* float(text) for the decimal notations [sign] digits [. digits] with at
\* most two fraction digits, in hundredths; anything else the model's texts
\* hold raises ValueError (ok is FALSE).
ParseFloat(text) ==
    LET signed == Len(text) > 0 /\ InChars(Head(text), "+-")
        body == IF signed THEN Tail(text) ELSE text
        dots == {i \in 1..Len(body) : CharAt(body, i) = "."}
        whole == IF dots = {} THEN body
                 ELSE SubSeq(body, 1, (CHOOSE i \in dots : TRUE) - 1)
        frac == IF dots = {} THEN ""
                ELSE SubSeq(body, (CHOOSE i \in dots : TRUE) + 1, Len(body))
        ok == /\ Cardinality(dots) <= 1
              /\ AllDigits(whole) /\ AllDigits(frac)
              /\ Len(whole) + Len(frac) > 0
              /\ Len(frac) <= 2
        magnitude == 100 * DigitsValue(whole)
                     + (IF Len(frac) = 1 THEN 10 * DigitsValue(frac) ELSE DigitsValue(frac))
    IN  IF ~ok THEN [ok |-> FALSE, num |-> 0]
        ELSE [ok |-> TRUE,
              num |-> IF signed /\ Head(text) = "-" THEN -magnitude ELSE magnitude]

\* parse_amount: the float (in hundredths), or None (ok is FALSE).
parse_amount(value) ==
    IF value.kind = "nan" THEN [ok |-> FALSE, num |-> 0]
    ELSE IF value.kind = "num" THEN [ok |-> TRUE, num |-> value.num]
    ELSE LET cleaned == RemoveChars(StripChars(value.str, " "), AmountNoise)
             negated == IF StartsWith(cleaned, "(") /\ EndsWith(cleaned, ")")
                        THEN "-" \o SubSeq(cleaned, 2, Len(cleaned) - 1)
                        ELSE cleaned
         IN  ParseFloat(negated)

(***************************************************************************)
(* Dates: pd.to_datetime(errors='coerce') on ISO dates, as day numbers     *)
(***************************************************************************)
IsLeap(y) == (y % 4 = 0 /\ y % 100 # 0) \/ y % 400 = 0

DaysInMonth(y, m) ==
    IF m = 2 THEN (IF IsLeap(y) THEN 29 ELSE 28)
    ELSE IF m \in {4, 6, 9, 11} THEN 30 ELSE 31

\* Days since 1970-01-01 of the civil date y-m-d.
DaysFromCivil(y, m, d) ==
    LET yy == IF m <= 2 THEN y - 1 ELSE y
        era == yy \div 400
        yoe == yy - era * 400
        mp == IF m > 2 THEN m - 3 ELSE m + 9
        doy == (153 * mp + 2) \div 5 + d - 1
        doe == yoe * 365 + yoe \div 4 - yoe \div 100 + doy
    IN  era * 146097 + doe - 719468

\* The timestamp of a date cell as its day number; NaT (ok is FALSE) for an
\* empty field and for a text that is no calendar date YYYY-MM-DD.
ParseDate(value) ==
    LET text == value.str
        shaped == /\ value.kind = "str" /\ Len(text) = 10
                  /\ CharAt(text, 5) = "-" /\ CharAt(text, 8) = "-"
                  /\ AllDigits(SubSeq(text, 1, 4))
                  /\ AllDigits(SubSeq(text, 6, 7))
                  /\ AllDigits(SubSeq(text, 9, 10))
        y == DigitsValue(SubSeq(text, 1, 4))
        m == DigitsValue(SubSeq(text, 6, 7))
        d == DigitsValue(SubSeq(text, 9, 10))
    IN  IF shaped /\ y >= 1 /\ m \in 1..12 /\ d \in 1..DaysInMonth(y, m)
        THEN [ok |-> TRUE, day |-> DaysFromCivil(y, m, d)]
        ELSE [ok |-> FALSE, day |-> 0]

\* date.weekday(): 0 is Monday.
Weekday(day) == (day + 3) % 7

\* compute_week_start: the Monday of the date's week.
compute_week_start(day) == day - Weekday(day)

\* The calendar year of a day number.
YearOf(day) ==
    LET y == 1970 + day \div 366
    IN  IF DaysFromCivil(y + 1, 1, 1) <= day THEN y + 1 ELSE y

\* date.isocalendar().week: the number, within its year, of the week's Thursday.
IsoWeek(day) ==
    LET thursday == day - Weekday(day) + 3
    IN  (thursday - DaysFromCivil(YearOf(thursday), 1, 1)) \div 7 + 1

(***************************************************************************)
(* core/data_cleaning.py                                                   *)
(***************************************************************************)
DateAliases ==
    <<"date", "transaction_date", "txn_date", "trans_date",
      "posting_date", "value_date", "timestamp">>

DescriptionAliases ==
    <<"description", "narration", "particulars", "details",
      "transaction_details", "remarks", "memo">>

AmountAliases ==
    <<"amount", "transaction_amount", "value", "debit", "credit", "txn_amount">>

DebitAliases == <<"debit", "debit_amount", "withdrawal">>

CreditAliases == <<"credit", "credit_amount", "deposit">>

income_keywords ==
    <<"salary", "credit", "deposit", "refund", "cashback", "interest earned">>

\* What a pipeline function hands back: its value, or the exception it raised.
Ok(value) == [raised |-> "", message |-> "", value |-> value]

Fail(kind, message) == [raised |-> kind, message |-> message, value |-> <<>>]

\* df[desc_col].fillna('').astype(str) of one cell (description columns hold text).
DescriptionText(value) == IF value.kind = "nan" THEN "" ELSE value.str

\* sort_values('date') on a frame of this size: rows of one date keep their order.
RECURSIVE InsertByDate(_, _)
InsertByDate(sorted, row) ==
    IF sorted = <<>> THEN <<row>>
    ELSE IF Head(sorted).date <= row.date
    THEN <<Head(sorted)>> \o InsertByDate(Tail(sorted), row)
    ELSE <<row>> \o sorted

RECURSIVE SortByDate(_)
SortByDate(rows) ==
    IF rows = <<>> THEN <<>>
    ELSE InsertByDate(SortByDate(SubSeq(rows, 1, Len(rows) - 1)), rows[Len(rows)])

\* A variant in which the sign also decides a tie.
SignDecides_Ties(positive_count, negative_count) == negative_count >= positive_count

\* if negative_count > positive_count: the sign of the amount decides.
SignDecides(positive_count, negative_count) == negative_count > positive_count

\* df_clean['amount'].abs()
StoredAmount(parsed) == Abs(parsed)

\* A variant that keeps the rows without a date.
dropna_AmountOnly(parsed) == SelectSeq(parsed, LAMBDA r : r.amount.ok)

\* df_clean.dropna(subset=['date', 'amount'])
dropna(parsed) == SelectSeq(parsed, LAMBDA r : r.date.ok /\ r.amount.ok)

\* clean_transactions: the rows of the cleaned frame, or ValueError.
clean_transactions(raw) ==
    IF raw.rows = <<>> \/ raw.columns = <<>>
    THEN Fail("ValueError", "Empty DataFrame provided")
    ELSE
    LET df == normalize_column_names(raw)
        date_col == find_matching_column(df, DateAliases)
        desc_col == find_matching_column(df, DescriptionAliases)
        amount_col == find_matching_column(df, AmountAliases)
    IN  IF date_col = <<>>
        THEN Fail("ValueError", "No date column found in CSV")
        ELSE IF desc_col = <<>>
        THEN Fail("ValueError", "No description column found in CSV")
        ELSE IF amount_col = <<>>
        THEN Fail("ValueError", "No amount column found in CSV")
        ELSE
        LET parsed == [i \in 1..Len(df.rows) |->
                          [index |-> i,
                           date |-> ParseDate(Cell(df, df.rows[i], date_col[1])),
                           description |-> DescriptionText(Cell(df, df.rows[i], desc_col[1])),
                           amount |-> parse_amount(Cell(df, df.rows[i], amount_col[1]))]]
            kept == dropna(parsed)
        IN  IF kept = <<>>
            THEN Fail("ValueError", "No valid transactions found after cleaning")
            ELSE
            LET debit_col == find_matching_column(df, DebitAliases)
                credit_col == find_matching_column(df, CreditAliases)
                positive_count == Cardinality({i \in 1..Len(kept) : kept[i].amount.num > 0})
                negative_count == Cardinality({i \in 1..Len(kept) : kept[i].amount.num < 0})
                is_expense(r) ==
                    IF debit_col # <<>> /\ credit_col # <<>>
                    THEN LET debit == Cell(df, df.rows[r.index], debit_col[1])
                         IN  debit.kind # "nan" /\ ~(debit.kind = "num" /\ debit.num = 0)
                    ELSE IF SignDecides(positive_count, negative_count)
                    THEN r.amount.num < 0
                    ELSE ~\E k \in 1..Len(income_keywords) :
                             Contains(Lower(r.description), income_keywords[k])
            IN  Ok(SortByDate([i \in 1..Len(kept) |->
                       [date |-> kept[i].date.day,
                        description |-> kept[i].description,
                        amount |-> StoredAmount(kept[i].amount.num),
                        is_expense |-> is_expense(kept[i])]]))

(***************************************************************************)
(* core/spending_classifier.py                                             *)
(***************************************************************************)
\* The rules of infer_category in their order: keywords, category, need_vs_want.
CategoryRules ==
    << [words |-> <<"rent", "lease", "emi", "loan", "mortgage", "housing">>,
        category |-> "rent", need_vs_want |-> "need"],
       [words |-> <<"grocery", "supermarket", "kirana", "vegetable", "fruit",
                    "dmart", "reliance fresh", "big bazaar">>,
        category |-> "food", need_vs_want |-> "need"],
       [words |-> <<"zomato", "swiggy", "restaurant", "cafe", "coffee", "pizza",
                    "burger", "domino", "mcdonald", "kfc", "food delivery">>,
        category |-> "food", need_vs_want |-> "want"],
       [words |-> <<"uber", "ola", "bus", "train", "metro", "fuel", "petrol",
                    "diesel", "gas", "rapido", "auto">>,
        category |-> "transport", need_vs_want |-> "need"],
       [words |-> <<"electricity", "water", "wifi", "internet", "phone", "mobile",
                    "recharge", "gas", "cylinder", "utility", "bill payment">>,
        category |-> "bills", need_vs_want |-> "need"],
       [words |-> <<"medical", "hospital", "doctor", "pharmacy", "medicine",
                    "health", "insurance", "apollo", "medicare">>,
        category |-> "health", need_vs_want |-> "need"],
       [words |-> <<"netflix", "spotify", "amazon prime", "hotstar", "movie",
                    "cinema", "theatre", "pvr", "inox", "gaming", "game">>,
        category |-> "entertainment", need_vs_want |-> "want"],
       [words |-> <<"amazon", "flipkart", "myntra", "ajio", "shopping", "mall",
                    "store", "fashion", "clothing", "shoes">>,
        category |-> "shopping", need_vs_want |-> "want"],
       [words |-> <<"education", "school", "college", "university", "course",
                    "tuition", "book", "study">>,
        category |-> "education", need_vs_want |-> "need"] >>

\* any(word in desc_lower for word in words)
AnyWordIn(desc_lower, words) ==
    \E k \in 1..Len(words) : Contains(desc_lower, words[k])

\* infer_category with the last matching rule in place of the first.
infer_category_LastMatch(description, is_expense) ==
    LET desc_lower == Lower(description)
        hits == {k \in 1..Len(CategoryRules) : AnyWordIn(desc_lower, CategoryRules[k].words)}
    IN  IF ~is_expense THEN <<"income", "income">>
        ELSE IF hits = {} THEN <<"other", "want">>
        ELSE LET last == CHOOSE k \in hits : \A j \in hits : k >= j
             IN  <<CategoryRules[last].category, CategoryRules[last].need_vs_want>>

\* infer_category deciding by the description alone.
infer_category_DescriptionOnly(description, is_expense) ==
    LET desc_lower == Lower(description)
        hits == {k \in 1..Len(CategoryRules) : AnyWordIn(desc_lower, CategoryRules[k].words)}
    IN  IF AnyWordIn(desc_lower, income_keywords) THEN <<"income", "income">>
        ELSE IF hits = {} THEN <<"other", "want">>
        ELSE LET first == CHOOSE k \in hits : \A j \in hits : k <= j
             IN  <<CategoryRules[first].category, CategoryRules[first].need_vs_want>>

\* infer_category: <<category, need_vs_want>>
infer_category(description, is_expense) ==
    LET desc_lower == Lower(description)
        hits == {k \in 1..Len(CategoryRules) : AnyWordIn(desc_lower, CategoryRules[k].words)}
    IN  IF ~is_expense THEN <<"income", "income">>
        ELSE IF hits = {} THEN <<"other", "want">>
        ELSE LET first == CHOOSE k \in hits : \A j \in hits : k <= j
             IN  <<CategoryRules[first].category, CategoryRules[first].need_vs_want>>

\* classify_spending: the frame with the two label columns added.
classify_spending(df) ==
    [i \in 1..Len(df) |->
        LET c == infer_category(df[i].description, df[i].is_expense)
        IN  [date |-> df[i].date, description |-> df[i].description,
             amount |-> df[i].amount, is_expense |-> df[i].is_expense,
             category |-> c[1], need_vs_want |-> c[2]]]

(***************************************************************************)
(* Frame arithmetic shared by the analytics modules                        *)
(***************************************************************************)
\* df[mask]['amount'].sum()
RECURSIVE SumAmounts(_)
SumAmounts(df) == IF df = <<>> THEN 0 ELSE Head(df).amount + SumAmounts(Tail(df))

Expenses(df) == SelectSeq(df, LAMBDA r : r.is_expense)

Incomes(df) == SelectSeq(df, LAMBDA r : ~r.is_expense)

Labeled(df, label) == SelectSeq(df, LAMBDA r : r.need_vs_want = label)

Dates(df) == {df[i].date : i \in 1..Len(df)}

MinOf(set) == CHOOSE x \in set : \A y \in set : x <= y

MaxOf(set) == CHOOSE x \in set : \A y \in set : x >= y

\* (df['date'].max() - df['date'].min()).days of a non-empty frame
DaysSpan(df) == MaxOf(Dates(df)) - MinOf(Dates(df))

\* The elements of a set of integers in ascending order.
RECURSIVE Ascending(_)
Ascending(set) ==
    IF set = {} THEN <<>> ELSE <<MinOf(set)>> \o Ascending(set \ {MinOf(set)})

\* groupby(date)['amount'].sum(): one total per date that has a row.
DailySums(df) ==
    LET days == Ascending(Dates(df))
    IN  [k \in 1..Len(days) |-> SumAmounts(SelectSeq(df, LAMBDA r : r.date = days[k]))]

RECURSIVE GCD(_, _)
GCD(a, b) == IF b = 0 THEN a ELSE GCD(b, a % b)

RECURSIVE GCDSeq(_)
GCDSeq(xs) == IF xs = <<>> THEN 0 ELSE GCD(Head(xs), GCDSeq(Tail(xs)))

RECURSIVE SumSquares(_)
SumSquares(xs) == IF xs = <<>> THEN 0 ELSE Head(xs) * Head(xs) + SumSquares(Tail(xs))

RECURSIVE Pow10(_)
Pow10(digits) == IF digits = 0 THEN 1 ELSE 10 * Pow10(digits - 1)

\* floor(num * 10^digits / den) for num >= 0 and den > 0, by long division.
RECURSIVE ScaledDiv(_, _, _)
ScaledDiv(num, den, digits) ==
    IF digits = 0 THEN num \div den
    ELSE (num \div den) * Pow10(digits) + ScaledDiv(10 * (num % den), den, digits - 1)

\* num * 10^digits / den for any sign of num, truncated.
SignedScaledDiv(num, den, digits) ==
    IF num >= 0 THEN ScaledDiv(num, den, digits) ELSE -ScaledDiv(-num, den, digits)

\* floor(sqrt(v)) for v >= 0, by bisection over lo..hi.
RECURSIVE ISqrtIn(_, _, _)
ISqrtIn(v, lo, hi) ==
    IF lo >= hi THEN lo
    ELSE LET mid == (lo + hi + 1) \div 2
         IN  IF mid * mid <= v THEN ISqrtIn(v, mid, hi) ELSE ISqrtIn(v, lo, mid - 1)

ISqrt(v) == ISqrtIn(v, 0, 46340)

\* std()/mean() of a series of two or more non-negative values with a positive
\* mean, in thousandths: the sample standard deviation over the mean.  The
\* ratio does not depend on the unit, so the values are first divided by their
\* greatest common divisor.
CoefficientOfVariation(xs) ==
    LET g == GCDSeq(xs)
        ys == [k \in 1..Len(xs) |-> xs[k] \div g]
        n == Len(ys)
        total == SumSeq(ys)
    IN  ISqrt(ScaledDiv(n * (n * SumSquares(ys) - total * total),
                        (n - 1) * total * total, 6))

\* The values of a series in ascending order.
RECURSIVE InsertNumber(_, _)
InsertNumber(sorted, x) ==
    IF sorted = <<>> THEN <<x>>
    ELSE IF Head(sorted) <= x THEN <<Head(sorted)>> \o InsertNumber(Tail(sorted), x)
    ELSE <<x>> \o sorted

RECURSIVE SortNumbers(_)
SortNumbers(xs) ==
    IF xs = <<>> THEN <<>> ELSE InsertNumber(SortNumbers(Tail(xs)), Head(xs))

\* median() of a non-empty series: twice the median, to stay in integers.
TwiceMedian(xs) ==
    LET sorted == SortNumbers(xs)
        n == Len(xs)
    IN  IF n % 2 = 1 THEN 2 * sorted[(n + 1) \div 2]
        ELSE sorted[n \div 2] + sorted[n \div 2 + 1]

\* round(x, 1) of a value given in thousandths, in tenths (ties to even).
RoundToTenths(thousandths) ==
    LET q == thousandths \div 100
        r == thousandths % 100
    IN  IF r > 50 \/ (r = 50 /\ q % 2 = 1) THEN q + 1 ELSE q

\* The quotient num / den (den > 0) in lowest terms.
Ratio(num, den) ==
    LET g == GCD(Abs(num), den)
    IN  IF num = 0 THEN [num |-> 0, den |-> 1]
        ELSE [num |-> num \div g, den |-> den \div g]

\* round(x, 1) of a quotient, in tenths (ties to even).
RoundRatioToTenths(x) ==
    LET q == (10 * Abs(x.num)) \div x.den
        r == (10 * Abs(x.num)) % x.den
        up == 2 * r > x.den \/ (2 * r = x.den /\ q % 2 = 1)
        tenths == IF up THEN q + 1 ELSE q
    IN  IF x.num < 0 THEN 0 - tenths ELSE tenths

(***************************************************************************)
(* core/budget_planner.py, core/advanced_features.py and                   *)
(* core/dynamic_features.py: the Budget Aggregator and the eleven modules. *)
(* Each is modelled by the branch it takes, the exception it raises and    *)
(* the numbers named below; the remaining numbers and texts of its payload *)
(* are left out.  Amounts are hundredths, scores are thousandths until     *)
(* they are rounded for the payload.                                       *)
(***************************************************************************)
\* The category names of expenses in the order groupby('category') lists them.
CategoryNames ==
    <<"bills", "education", "entertainment", "food", "health", "other",
      "rent", "shopping", "transport">>

\* sort_values('amount', ascending=False) of name/amount entries; entries of
\* one amount keep their order on frames of this size.
RECURSIVE InsertByAmount(_, _)
InsertByAmount(sorted, entry) ==
    IF sorted = <<>> THEN <<entry>>
    ELSE IF Head(sorted).amount >= entry.amount
    THEN <<Head(sorted)>> \o InsertByAmount(Tail(sorted), entry)
    ELSE <<entry>> \o sorted

RECURSIVE SortByAmount(_)
SortByAmount(entries) ==
    IF entries = <<>> THEN <<>>
    ELSE InsertByAmount(SortByAmount(SubSeq(entries, 1, Len(entries) - 1)),
                        entries[Len(entries)])

\* The rows generate_budget_plan groups, with every row in place of the
\* expenses.
BudgetExpenses_AllRows(df) == df

\* expenses_df = df[df['is_expense']].copy()
BudgetExpenses(df) == Expenses(df)

\* groupby('category')['amount'].sum(), largest first, as the categories list.
CategorySummary(expenses_df) ==
    LET names == {expenses_df[i].category : i \in 1..Len(expenses_df)}
        present == SelectSeq(CategoryNames \o <<"income">>, LAMBDA c : c \in names)
    IN  SortByAmount([k \in 1..Len(present) |->
            [name |-> present[k],
             amount |-> SumAmounts(SelectSeq(expenses_df,
                                             LAMBDA r : r.category = present[k]))]])

\* groupby('week_start')['amount'].sum() in week order, as the weekly series.
WeeklySpending(expenses_df) ==
    LET weeks == Ascending({compute_week_start(expenses_df[i].date) :
                               i \in 1..Len(expenses_df)})
    IN  [k \in 1..Len(weeks) |->
            [week_start |-> weeks[k],
             total_spent |-> SumAmounts(SelectSeq(expenses_df,
                 LAMBDA r : compute_week_start(r.date) = weeks[k]))]]

\* round(num / den, 0) for num >= 0 and den > 0.
RoundedDiv(num, den) == (2 * num + den) \div (2 * den)

\* std() / mean() > num / den for a series of two or more values with a
\* positive mean: the sample variance against the squared bound.
VariationAbove(xs, num, den) ==
    LET g == GCDSeq(xs)
        ys == [k \in 1..Len(xs) |-> xs[k] \div g]
        n == Len(ys)
        total == SumSeq(ys)
    IN  den * den * n * (n * SumSquares(ys) - total * total)
            > num * num * (n - 1) * total * total

\* One insight of the flags list: its kind and the amount it carries.
Flag(kind, amount) == [kind |-> kind, amount |-> amount]

\* A variant that closes every flags list with the generic note.
WithFallback_Always(flags) == Append(flags, Flag("keep_tracking", 0))

\* if not flags: flags.append(the generic note)
WithFallback(flags) ==
    IF flags = <<>> THEN <<Flag("keep_tracking", 0)>> ELSE flags

\* The flags of generate_budget_plan, in the order of its appends.
BudgetFlags(df, category_summary, weekly_spending) ==
    LET total_income == SumAmounts(Incomes(df))
        total_expenses == SumAmounts(Expenses(df))
        total_wants == SumAmounts(Labeled(df, "want"))
        savings_potential == total_income - total_expenses
        days_range == DaysSpan(df)
        weekly == [k \in 1..Len(weekly_spending) |-> weekly_spending[k].total_spent]
        savings ==
            IF savings_potential < 0
            THEN <<Flag("overspend", Abs(savings_potential))>>
            ELSE IF savings_potential > 0
            THEN <<Flag("savings", savings_potential)>>
            ELSE <<>>
        balance ==
            IF total_expenses > 0 /\ 100 * total_wants > 50 * total_expenses
            THEN <<Flag("high_wants", 0)>>
            ELSE IF total_expenses > 0 /\ 100 * total_wants < 20 * total_expenses
            THEN <<Flag("low_wants", 0)>>
            ELSE <<>>
        concentration ==
            IF /\ category_summary # <<>>
               /\ total_expenses > 0
               /\ 100 * category_summary[1].amount > 40 * total_expenses
            THEN <<Flag("concentration", 0)>>
            ELSE <<>>
        volatility ==
            IF /\ Len(weekly) > 1
               /\ SumSeq(weekly) > 0
               /\ VariationAbove(weekly, 1, 2)
            THEN <<Flag("volatility", 0)>>
            ELSE <<>>
        \* savings_potential < total_expenses * (30 / days_range)
        emergency_fund ==
            IF /\ total_income > 0
               /\ savings_potential > 0
               /\ IF days_range > 0
                  THEN savings_potential * days_range < 30 * total_expenses
                  ELSE savings_potential < total_expenses
            THEN <<Flag("emergency_fund", 0)>>
            ELSE <<>>
    IN  WithFallback(savings \o balance \o concentration \o volatility \o emergency_fund)

\* generate_budget_plan: the summary, the categories, the weekly series and
\* the flags.
generate_budget_plan(df) ==
    IF df = <<>>
    THEN Fail("ValueError", "Cannot generate budget plan from empty DataFrame")
    ELSE LET total_income == SumAmounts(Incomes(df))
             total_expenses == SumAmounts(Expenses(df))
             days_range == DaysSpan(df)
             expenses_df == BudgetExpenses(df)
             category_summary == CategorySummary(expenses_df)
             weekly_spending == WeeklySpending(expenses_df)
         IN  Ok([summary |->
                   [total_income |-> total_income,
                    total_expenses |-> total_expenses,
                    total_needs |-> SumAmounts(Labeled(df, "need")),
                    total_wants |-> SumAmounts(Labeled(df, "want")),
                    savings_potential |-> total_income - total_expenses,
                    \* total_expenses / max(1, days_range / 7)
                    suggested_weekly_budget |->
                        IF days_range > 7 THEN RoundedDiv(7 * total_expenses, days_range)
                        ELSE total_expenses],
                 categories |-> category_summary,
                 weekly_series |-> weekly_spending,
                 flags |-> BudgetFlags(df, category_summary, weekly_spending)])

\* The longest run of consecutive dates in an ascending sequence of distinct
\* dates, as the loop of detect_spending_patterns counts it from 1.
RECURSIVE MaxStreak(_, _, _, _)
MaxStreak(dates, i, current_streak, max_streak) ==
    IF i > Len(dates) THEN max_streak
    ELSE IF dates[i] - dates[i - 1] = 1
    THEN MaxStreak(dates, i + 1, current_streak + 1, Max2(max_streak, current_streak + 1))
    ELSE MaxStreak(dates, i + 1, 1, max_streak)

\* detect_spending_patterns
detect_spending_patterns(df) ==
    IF df = <<>> THEN Ok([empty |-> TRUE])
    ELSE Ok([longest_spending_streak |->
                MaxStreak(Ascending(Dates(Expenses(df))), 2, 1, 1)])

\* A variant that is confident from 30 days on.
Confidence_From30(date_range) == IF date_range >= 30 THEN "Medium" ELSE "Low"

\* "Medium" if date_range > 30 else "Low"
Confidence(date_range) == IF date_range > 30 THEN "Medium" ELSE "Low"

\* predict_next_month: the message, or the projection (amounts in
\* hundredths, rounded to the nearest one) with its confidence.
predict_next_month(df) ==
    IF df = <<>> THEN Ok([empty |-> TRUE])
    ELSE LET date_range == DaysSpan(df)
             total_expenses == SumAmounts(Expenses(df))
         IN  IF date_range < 7
             THEN Ok([prediction |-> "Need more data (at least 2 weeks)"])
             ELSE Ok([predicted_monthly_expenses |->
                          RoundedDiv(30 * total_expenses, Max2(date_range, 1)),
                      daily_average |-> RoundedDiv(total_expenses, Max2(date_range, 1)),
                      confidence |-> Confidence(date_range)])

\* A variant that cuts the percentage off after its first decimal.
PercentOf_Truncated(part, total) ==
    LET tenths == (1000 * Abs(part)) \div total
    IN  IF part < 0 THEN 0 - tenths ELSE tenths

\* round((part / total) * 100, 1) for total > 0, in tenths.
PercentOf(part, total) ==
    LET g == Max2(1, GCD(Abs(part), total))
    IN  RoundRatioToTenths(Ratio(100 * (part \div g), total \div g))

\* compare_to_benchmarks: the message, or the user's split (in tenths of a
\* percent) next to the ideal one.
compare_to_benchmarks(df) ==
    IF df = <<>> THEN Ok([empty |-> TRUE])
    ELSE LET total_income == SumAmounts(Incomes(df))
             total_needs == SumAmounts(Labeled(df, "need"))
             total_wants == SumAmounts(Labeled(df, "want"))
         IN  IF total_income = 0
             THEN Ok([message |-> "No income data available for comparison"])
             ELSE Ok([your_split |->
                        [needs |-> PercentOf(total_needs, total_income),
                         wants |-> PercentOf(total_wants, total_income),
                         savings |-> PercentOf(total_income - total_needs - total_wants,
                                               total_income)],
                      ideal_split |-> [needs |-> 50, wants |-> 30, savings |-> 20]])

\* generate_savings_goals: whether the discretionary-spending goal is set.
generate_savings_goals(df) ==
    IF df = <<>> THEN Ok([empty |-> TRUE])
    ELSE Ok([reduce_wants |-> SumAmounts(Labeled(df, "want")) > 0])

\* expenses.groupby('week')['amount'].sum(): one total per ISO week number.
WeekNumberSums(expenses) ==
    LET weeks == Ascending({IsoWeek(expenses[i].date) : i \in 1..Len(expenses)})
    IN  [k \in 1..Len(weeks) |->
            SumAmounts(SelectSeq(expenses, LAMBDA r : IsoWeek(r.date) = weeks[k]))]

\* std() / mean() < num / den for a series of two or more values with a
\* positive mean: the sample variance against the squared bound.
VariationBelow(xs, num, den) ==
    LET g == GCDSeq(xs)
        ys == [k \in 1..Len(xs) |-> xs[k] \div g]
        n == Len(ys)
        total == SumSeq(ys)
    IN  den * den * n * (n * SumSquares(ys) - total * total)
            < num * num * (n - 1) * total * total

\* A variant of the rating bands in which 80 points are not yet Excellent.
HealthRating_Strict(score) ==
    IF score > 80 THEN "Excellent"
    ELSE IF score >= 60 THEN "Good"
    ELSE IF score >= 40 THEN "Fair"
    ELSE "Needs Improvement"

\* The rating of a score.
HealthRating(score) ==
    IF score >= 80 THEN "Excellent"
    ELSE IF score >= 60 THEN "Good"
    ELSE IF score >= 40 THEN "Fair"
    ELSE "Needs Improvement"

\* financial_health_score: the score, its rating and the points of the four
\* factors.  The divisions are float divisions, which give inf or nan for a
\* zero divisor and do not raise; every comparison with nan is False.
financial_health_score(df) ==
    IF df = <<>> THEN Ok([score |-> 0, message |-> "No data"])
    ELSE LET total_income == SumAmounts(Incomes(df))
             total_expenses == SumAmounts(Expenses(df))
             total_wants == SumAmounts(Labeled(df, "want"))
             saved == total_income - total_expenses
             savings_points ==
                 IF total_income <= 0 THEN 0
                 ELSE IF 100 * saved >= 20 * total_income THEN 30
                 ELSE IF 100 * saved >= 10 * total_income THEN 20
                 ELSE IF saved >= 0 THEN 10
                 ELSE 0
             wants_points ==
                 IF total_expenses <= 0 THEN 0
                 ELSE IF 100 * total_wants <= 30 * total_expenses THEN 25
                 ELSE IF 100 * total_wants <= 50 * total_expenses THEN 15
                 ELSE 5
             expenses == Expenses(df)
             weekly == WeekNumberSums(expenses)
             consistency_points ==
                 IF Len(expenses) <= 7 \/ SumSeq(weekly) <= 0 THEN 0
                 \* the std of a single week is nan
                 ELSE IF Len(weekly) < 2 THEN 0
                 ELSE IF VariationBelow(weekly, 3, 10) THEN 20
                 ELSE IF VariationBelow(weekly, 6, 10) THEN 10
                 ELSE 0
             \* max(1, days / 30) = max(30, days) / 30
             days == Max2(30, DaysSpan(df))
             buffer_points ==
                 IF total_expenses = 0
                 THEN (IF saved > 0 THEN 25 ELSE 5)
                 ELSE IF saved * days >= 3 * 30 * total_expenses THEN 25
                 ELSE IF saved * days >= 30 * total_expenses THEN 15
                 ELSE 5
             score == savings_points + wants_points + consistency_points + buffer_points
         IN  Ok([score |-> score,
                 rating |-> HealthRating(score),
                 savings_points |-> savings_points,
                 wants_points |-> wants_points,
                 consistency_points |-> consistency_points,
                 buffer_points |-> buffer_points])

\* ((income - expense) / income * 100) if income > 0 else 0
SavingsRate(income, expense) ==
    LET g == Max2(1, GCD(income, expense))
    IN  IF income > 0
        THEN Ratio(100 * ((income - expense) \div g), income \div g)
        ELSE Ratio(0, 1)

\* The score left as computed, without max(0, min(100, ...)).
ClampScore_Open(score) == score

\* max(0, min(100, momentum_score))
ClampScore(score) ==
    IF score.num < 0 THEN Ratio(0, 1)
    ELSE IF score.num > 100 * score.den THEN Ratio(100, 1)
    ELSE score

\* calculate_financial_momentum: the two halves of the frame (which arrives
\* in date order, so that sort_values leaves it as it is), the two changes as
\* quotients and the score in tenths.
calculate_financial_momentum(df) ==
    IF Len(df) < 7
    THEN Ok([momentum |-> "neutral", score |-> 500])
    ELSE LET mid_point == Len(df) \div 2
             first_half == SubSeq(df, 1, mid_point)
             second_half == SubSeq(df, mid_point + 1, Len(df))
             first_expense == SumAmounts(Expenses(first_half))
             second_expense == SumAmounts(Expenses(second_half))
             first_income == SumAmounts(Incomes(first_half))
             second_income == SumAmounts(Incomes(second_half))
             g == Max2(1, GCD(first_expense, second_expense))
             \* first_avg = first_expense / len(first_half), and so the second
             change ==
                 IF first_expense > 0
                 THEN Ratio(100 * ((first_expense \div g) * Len(second_half)
                                     - (second_expense \div g) * Len(first_half)),
                            (first_expense \div g) * Len(second_half))
                 ELSE Ratio(0, 1)
             first_savings_rate == SavingsRate(first_income, first_expense)
             second_savings_rate == SavingsRate(second_income, second_expense)
             savings_improvement ==
                 Ratio(second_savings_rate.num * first_savings_rate.den
                         - first_savings_rate.num * second_savings_rate.den,
                       second_savings_rate.den * first_savings_rate.den)
             momentum_score ==
                 ClampScore(Ratio(100 * change.den * savings_improvement.den
                                    + change.num * savings_improvement.den
                                    + savings_improvement.num * change.den,
                                  2 * change.den * savings_improvement.den))
         IN  Ok([first_half |-> first_half, second_half |-> second_half,
                 score |-> RoundRatioToTenths(momentum_score),
                 spending_change |-> change,
                 savings_improvement |-> savings_improvement])

\* detect_spending_triggers: the impulse-pattern trigger.
detect_spending_triggers(df) ==
    IF Len(df) < 10 THEN Ok([triggers |-> <<>>])
    ELSE LET expenses == Expenses(df)
             impulse_days ==
                 Cardinality({d \in Dates(expenses) :
                     Len(SelectSeq(expenses, LAMBDA r : r.date = d)) >= 4})
         IN  Ok([triggers |->
                   IF impulse_days >= 2 THEN <<"Impulse Spending Pattern">> ELSE <<>>])

food_keywords == <<"zomato", "swiggy", "restaurant", "cafe", "coffee", "pizza", "food">>

\* generate_smart_challenges: the challenges' ids with the targets of the
\* no-spend and the daily-limit challenge.  With no expense row daily_avg is
\* the mean of an empty series, nan, and int(daily_limit) raises ValueError.
generate_smart_challenges(df) ==
    IF Len(df) < 5 THEN Ok([challenges |-> <<>>])
    ELSE
    LET df_expenses == Expenses(df)
        spending_days == Cardinality(Dates(df_expenses))
        total_days == DaysSpan(df) + 1
        no_spend_days == total_days - spending_days
        food_txns == SelectSeq(df_expenses,
                         LAMBDA r : AnyWordIn(Lower(r.description), food_keywords))
        first == <<[id |-> "no_spend_days", target |-> no_spend_days + 3]>>
        eating == IF Len(food_txns) >= 3
                  THEN <<[id |-> "reduce_eating_out"]>> ELSE <<>>
        roundup == <<[id |-> "round_up_savings"]>>
    IN  IF df_expenses = <<>>
        THEN Fail("ValueError", "cannot convert float NaN to integer")
        ELSE Ok([challenges |->
                   first \o eating \o roundup
                   \o <<[id |-> "daily_limit", target |-> DailyLimitTarget]>>
                   \o <<[id |-> "category_reduction"]>>])

\* calculate_financial_personality: the persona.  cv is 0 when the mean of
\* the expenses is not positive (no expense row, or amounts of 0) and NaN,
\* which fails every comparison, for a single expense; avg_transaction and
\* total_expense / num_transactions are the same mean.
calculate_financial_personality(df) ==
    IF Len(df) < 10 THEN Ok([personality |-> "New User"])
    ELSE LET df_expenses == Expenses(df)
             amounts == [k \in 1..Len(df_expenses) |-> df_expenses[k].amount]
             total_expense == SumSeq(amounts)
             num_transactions == Len(amounts)
             cv_is_zero == num_transactions = 0 \/ total_expense = 0
             cv_is_nan == ~cv_is_zero /\ num_transactions = 1
             large_txns ==
                 Cardinality({k \in 1..num_transactions :
                     num_transactions * amounts[k] > 2 * total_expense})
             days_range == DaysSpan(df) + 1
         IN  Ok([personality |->
                   IF cv_is_zero \/ (~cv_is_nan /\ VariationBelow(amounts, 1, 2))
                   THEN "The Consistent Planner"
                   ELSE IF /\ ~cv_is_nan
                           /\ VariationAbove(amounts, 3, 2)
                           /\ 5 * large_txns > num_transactions
                   THEN "The Spontaneous Spender"
                   ELSE IF num_transactions > 2 * days_range
                   THEN "The Frequent Shopper"
                   ELSE IF 2 * total_expense > 3 * total_expense
                   THEN "The Bulk Buyer"
                   ELSE "The Balanced Spender"])

\* generate_peer_comparison: the income bracket.
generate_peer_comparison(df) ==
    LET df_income == SumAmounts(Incomes(df))
    IN  Ok([peer_avg_savings_rate |->
              IF df_income < 3000000 THEN 12
              ELSE IF df_income < 5000000 THEN 18
              ELSE IF df_income < 7500000 THEN 22
              ELSE 28])

\* The savings-discipline sub-score: min(20, savings_rate).
SavingsScore(savings_rate) == Min2(20000, savings_rate)

\* calculate_money_habits_score: the five sub-scores and their total, in
\* tenths as round(x, 1) reports them.
calculate_money_habits_score(df) ==
    LET df_expenses == Expenses(df)
        daily == DailySums(df_expenses)
        \* max(0, 20 - cv * 10); max(0, nan) is 0 when std() of one day is nan
        consistency_score ==
            IF Len(df_expenses) >= 7
            THEN IF SumSeq(daily) <= 0 THEN 20000 - 10 * 1000
                 ELSE IF Len(daily) < 2 THEN 0
                 ELSE Max2(0, 20000 - 10 * CoefficientOfVariation(daily))
            ELSE 10000
        days_range == DaysSpan(df) + 1
        mindfulness_score ==
            IF 2 * Len(df_expenses) <= 3 * days_range THEN 20000
            ELSE Max2(0, 27500 - ScaledDiv(5 * Len(df_expenses), days_range, 3))
        spending_days == Cardinality(Dates(df_expenses))
        planning_score == ScaledDiv(20 * (days_range - spending_days), days_range, 3)
        amounts == [k \in 1..Len(df_expenses) |-> df_expenses[k].amount]
        \* a comparison with the nan median of no expenses is False
        large_txns ==
            IF df_expenses = <<>> THEN 0
            ELSE Cardinality({k \in 1..Len(amounts) :
                                 2 * amounts[k] > 3 * TwiceMedian(amounts)})
        impulse_score == Max2(0, 20000 - 2000 * large_txns)
        income == SumAmounts(Incomes(df))
        expense == SumAmounts(df_expenses)
        savings_rate == IF income > 0 THEN SignedScaledDiv(income - expense, income, 5)
                        ELSE 0
        savings_score == SavingsScore(savings_rate)
        total_score == consistency_score + mindfulness_score + planning_score
                       + impulse_score + savings_score
    IN  Ok([total_score |-> RoundToTenths(total_score),
            max_score |-> 100,
            breakdown |->
                [consistency |-> RoundToTenths(consistency_score),
                 mindfulness |-> RoundToTenths(mindfulness_score),
                 planning |-> RoundToTenths(planning_score),
                 impulse_control |-> RoundToTenths(impulse_score),
                 savings_discipline |-> RoundToTenths(savings_score)],
            grade |-> IF total_score >= 90000 THEN "A+"
                      ELSE IF total_score >= 80000 THEN "A"
                      ELSE IF total_score >= 70000 THEN "B"
                      ELSE IF total_score >= 60000 THEN "C"
                      ELSE "D"])

\* The keys analyze_transactions adds to the plan, in its order.
PlanKeys ==
    <<"patterns", "predictions", "benchmarks", "savings_goals", "health_score",
      "momentum", "spending_triggers", "challenges", "personality",
      "peer_comparison", "habits_score">>

\* A variant of the modules in which the challenge suggestions are withheld
\* from a user base that has already started challenges.
RunModule_StoreAware(key, df) ==
    CASE key = "patterns" -> detect_spending_patterns(df)
      [] key = "predictions" -> predict_next_month(df)
      [] key = "benchmarks" -> compare_to_benchmarks(df)
      [] key = "savings_goals" -> generate_savings_goals(df)
      [] key = "health_score" -> financial_health_score(df)
      [] key = "momentum" -> calculate_financial_momentum(df)
      [] key = "spending_triggers" -> detect_spending_triggers(df)
      [] key = "challenges" -> IF user_challenges = <<>>
                               THEN generate_smart_challenges(df)
                               ELSE Ok(<<>>)
      [] key = "personality" -> calculate_financial_personality(df)
      [] key = "peer_comparison" -> generate_peer_comparison(df)
      [] key = "habits_score" -> calculate_money_habits_score(df)

\* The module behind each key.
RunModule(key, df) ==
    CASE key = "patterns" -> detect_spending_patterns(df)
      [] key = "predictions" -> predict_next_month(df)
      [] key = "benchmarks" -> compare_to_benchmarks(df)
      [] key = "savings_goals" -> generate_savings_goals(df)
      [] key = "health_score" -> financial_health_score(df)
      [] key = "momentum" -> calculate_financial_momentum(df)
      [] key = "spending_triggers" -> detect_spending_triggers(df)
      [] key = "challenges" -> generate_smart_challenges(df)
      [] key = "personality" -> calculate_financial_personality(df)
      [] key = "peer_comparison" -> generate_peer_comparison(df)
      [] key = "habits_score" -> calculate_money_habits_score(df)

(***************************************************************************)
(* The advice collaborator: utils/prompt_templates.py, core/llm_agent.py   *)
(* and the /chat endpoint of main.py                                       *)
(***************************************************************************)
\* Texts are sequences of tokens; whitespace tokens are " " and "\n".
Whitespace == {" ", "\n"}

Questions == {<<"can", " ", "i", " ", "afford", " ", "it">>, <<>>}

\* user_snapshot: Dict[str, Any], by the shape of what its three keys hold.
\*   summary:    absent | a dict of numbers | a dict with a text amount
\*               | null | a list
\*   categories: absent | [] | a list of dicts | a list of strings
\*               | a dict (not a list)
\*   flags:      absent | a list of strings | a number
Snapshots ==
    [summary : {"absent", "numbers", "text_amount", "null", "list"},
     categories : {"absent", "empty", "dicts", "strings", "dict"},
     flags : {"absent", "strings", "number"}]

\* What formatting the summary lines of the prompt raises ("" for nothing):
\* summary.get(...) needs a dict, the :,.0f format needs numbers.
SummaryRaises(summary) ==
    CASE summary \in {"absent", "numbers"} -> ""
      [] summary = "text_amount" -> "ValueError"
      [] OTHER -> "AttributeError"

\* if categories: for cat in categories[:5]: cat.get('name', ...)
CategoriesRaises(categories) ==
    CASE categories \in {"absent", "empty", "dicts"} -> ""
      [] categories = "strings" -> "AttributeError"
      [] OTHER -> "TypeError"

\* if flags: for flag in flags[:3]
FlagsRaises(flags) == IF flags = "number" THEN "TypeError" ELSE ""

\* build_user_prompt: the prompt (which parts it holds), or what it raised.
build_user_prompt(question, snapshot) ==
    LET raised == IF SummaryRaises(snapshot.summary) # ""
                  THEN SummaryRaises(snapshot.summary)
                  ELSE IF CategoriesRaises(snapshot.categories) # ""
                  THEN CategoriesRaises(snapshot.categories)
                  ELSE FlagsRaises(snapshot.flags)
    IN  [raised |-> raised,
         value |-> IF raised # "" THEN <<>>
                   ELSE <<[question |-> question,
                           categories |-> snapshot.categories = "dicts",
                           flags |-> snapshot.flags = "strings"]>>]

\* The timeout argument of a request that passes none.
NOT_GIVEN == "NOT_GIVEN"

\* The arguments of client.chat.completions.create as ask_coach passes them.
CompletionRequest(user_prompt) ==
    [model |-> "anthropic/claude-3.5-sonnet", user |-> user_prompt,
     max_tokens |-> 1000, timeout |-> NOT_GIVEN]

\* What the endpoint can answer: no choice, a choice without content, or a
\* choice with content.
LlmContents == {<<"advice">>, <<" ", "advice", "\n">>, <<" ">>}

LlmResponses ==
    {[choices |-> <<>>]} \cup {[choices |-> <<[content |-> <<>>, null |-> TRUE]>>]}
    \cup {[choices |-> <<[content |-> c, null |-> FALSE]>>] : c \in LlmContents}

\* What the client raises instead of answering.
LlmErrors == {"APIConnectionError", "AuthenticationError", "RateLimitError"}

\* str.strip()
RECURSIVE LStrip(_)
LStrip(text) ==
    IF text # <<>> /\ Head(text) \in Whitespace THEN LStrip(Tail(text)) ELSE text

RECURSIVE RStrip(_)
RStrip(text) ==
    IF text # <<>> /\ text[Len(text)] \in Whitespace
    THEN RStrip(SubSeq(text, 1, Len(text) - 1))
    ELSE text

Strip(text) == RStrip(LStrip(text))

\* response.choices[0].message.content.strip()
ExtractContent(llm_response) ==
    IF llm_response.choices = <<>> THEN [raised |-> "IndexError", value |-> <<>>]
    ELSE IF llm_response.choices[1].null
    THEN [raised |-> "AttributeError", value |-> <<>>]
    ELSE [raised |-> "", value |-> Strip(llm_response.choices[1].content)]

\* The canned answers of ask_coach and of chat_with_coach.
COACH_FALLBACK == <<"I'm having trouble connecting to the AI coach right now.">>

CHAT_FALLBACK == <<"I'm having a bit of trouble right now">>

\* ask_coach's handler with a narrower clause: except openai.APIError.
AskCoachCatches_ApiOnly(raised) == raised \in LlmErrors

\* except Exception as e: in ask_coach
AskCoachCatches(raised) == TRUE

\* No /chat request in progress.
ChatIdle ==
    [pc |-> "idle", question |-> <<>>, snapshot |-> <<>>, user_prompt |-> <<>>,
     call |-> <<>>, llm_response |-> <<>>, caught |-> "", answer |-> <<>>,
     status_code |-> 0]

\* An exception raised inside ask_coach's try block.
Throw(raised) ==
    chat' = [chat EXCEPT !.pc = IF AskCoachCatches(raised) THEN "except" ELSE "propagated",
                         !.caught = raised]

\* POST /chat: the request is validated and ask_coach is called.
ChatReceive(question, snapshot) ==
    /\ chat.pc = "idle"
    /\ chat' = [chat EXCEPT !.pc = "build", !.question = question,
                            !.snapshot = <<snapshot>>]
    /\ UNCHANGED <<user_challenges, now, response, job>>

\* ask_coach: the two prompts are built.
BuildPrompts ==
    /\ chat.pc = "build"
    /\ LET r == build_user_prompt(chat.question, chat.snapshot[1])
       IN  IF r.raised # "" THEN Throw(r.raised)
           ELSE chat' = [chat EXCEPT !.pc = "create", !.user_prompt = r.value]
    /\ UNCHANGED <<user_challenges, now, response, job>>

\* ask_coach: client.chat.completions.create(...) sends the request.
CreateCompletion ==
    /\ chat.pc = "create"
    /\ chat' = [chat EXCEPT !.pc = "calling",
                            !.call = <<CompletionRequest(chat.user_prompt[1])>>]
    /\ UNCHANGED <<user_challenges, now, response, job>>

\* The endpoint answers the request in flight.
LlmRespond(llm_response) ==
    /\ chat.pc = "calling"
    /\ chat' = [chat EXCEPT !.pc = "extract", !.llm_response = <<llm_response>>]
    /\ UNCHANGED <<user_challenges, now, response, job>>

\* The client raises instead of returning a response.
LlmRaise(raised) ==
    /\ chat.pc = "calling"
    /\ Throw(raised)
    /\ UNCHANGED <<user_challenges, now, response, job>>

\* ask_coach: the answer is taken out of the response.
ExtractAnswer ==
    /\ chat.pc = "extract"
    /\ LET r == ExtractContent(chat.llm_response[1])
       IN  IF r.raised # "" THEN Throw(r.raised)
           ELSE chat' = [chat EXCEPT !.pc = "return", !.answer = r.value]
    /\ UNCHANGED <<user_challenges, now, response, job>>

\* ask_coach: the except clause returns the canned answer.
AskCoachExcept ==
    /\ chat.pc = "except"
    /\ chat' = [chat EXCEPT !.pc = "return", !.answer = COACH_FALLBACK]
    /\ UNCHANGED <<user_challenges, now, response, job>>

\* chat_with_coach answers: ChatResponse(answer=answer), or its own canned
\* answer when ask_coach raised.
ChatReturn ==
    /\ chat.pc \in {"return", "propagated"}
    /\ chat' = [chat EXCEPT !.pc = "done", !.status_code = 200,
                            !.answer = IF chat.pc = "return" THEN @ ELSE CHAT_FALLBACK]
    /\ UNCHANGED <<user_challenges, now, response, job>>

(***************************************************************************)
(* The challenge endpoints: main.py                                        *)
(***************************************************************************)
NoLists == [activeChallenges |-> <<>>, completedChallenges |-> <<>>]

\* What a challenge endpoint answered: the HTTP status, the error detail and
\* the body (challenge: the record returned; lists: the two lists of list).
\* input echoes the request body: <<challengeData>> or <<currentValue>>.
Response(op, user_id, challenge_id, input, status_code, detail, challenge, lists) ==
    [op |-> op, userId |-> user_id, challengeId |-> challenge_id, input |-> input,
     status_code |-> status_code, detail |-> detail,
     challenge |-> challenge, lists |-> lists]

NoResponse == Response("none", "", "", <<>>, 0, "", <<>>, NoLists)

\* except ValueError -> 400, except Exception -> 500
StatusOf(raised) ==
    IF raised = "" THEN 200 ELSE IF raised = "ValueError" THEN 400 ELSE 500

\* POST /challenges/start
StartChallenge(user_id, challenge_id, challenge_data) ==
    LET r == start_challenge(user_challenges, user_id, challenge_id,
                             challenge_data, now + 1)
    IN  /\ r.raised = "" => now < MaxClock
        /\ user_challenges' = r.store
        /\ now' = IF r.raised = "" THEN now + 1 ELSE now
        /\ response' = Response("start", user_id, challenge_id, <<challenge_data>>,
                                StatusOf(r.raised),
                                r.message, r.value, NoLists)
        /\ UNCHANGED <<chat, job>>

\* GET /challenges/user/{userId}
GetUserChallenges(user_id) ==
    /\ response' = Response("list", user_id, "", <<>>, 200, "", <<>>,
                            get_user_challenges(user_challenges, user_id))
    /\ UNCHANGED <<user_challenges, now, chat, job>>

\* PATCH /challenges/progress/{userId}/{challengeId}
UpdateChallengeProgress(user_id, challenge_id, current_value) ==
    LET r == update_challenge_progress(user_challenges, user_id, challenge_id,
                                       current_value, now + 1)
        stamped == r.raised = "" /\ r.value[1].status = COMPLETED
    IN  /\ stamped => now < MaxClock
        /\ user_challenges' = r.store
        /\ now' = IF stamped THEN now + 1 ELSE now
        /\ response' = Response("progress", user_id, challenge_id, <<current_value>>,
                                StatusOf(r.raised),
                                r.message, r.value, NoLists)
        /\ UNCHANGED <<chat, job>>

\* DELETE /challenges/{userId}/{challengeId}
DeleteChallenge(user_id, challenge_id) ==
    LET r == delete_challenge(user_challenges, user_id, challenge_id)
    IN  /\ user_challenges' = r.store
        /\ response' = Response("delete", user_id, challenge_id, <<>>,
                                IF r.value THEN 200 ELSE 404,
                                IF r.value THEN "" ELSE "Challenge not found",
                                <<>>, NoLists)
        /\ UNCHANGED <<now, chat, job>>


\* No upload in progress.
JobIdle ==
    [pc |-> "idle", endpoint |-> "", files |-> <<>>, at |-> 0, df |-> <<>>,
     df_clean |-> <<>>, labeled |-> <<>>, plan |-> <<>>, next |-> 0,
     raised |-> "", message |-> "", status_code |-> 0, detail |-> "",
     body |-> <<>>]

\* challenge_manager = ChallengeManager(): an empty store.
StoreInit ==
    /\ user_challenges = <<>>
    /\ now = 0
    /\ response = NoResponse
    /\ chat = ChatIdle
    /\ job = JobIdle

StoreNext ==
    \/ \E u \in UserIds, c \in ChallengeIds, d \in ChallengeData : StartChallenge(u, c, d)
    \/ \E u \in UserIds : GetUserChallenges(u)
    \/ \E u \in UserIds, c \in ChallengeIds, v \in ProgressValues :
           UpdateChallengeProgress(u, c, v)
    \/ \E u \in UserIds, c \in ChallengeIds : DeleteChallenge(u, c)

StoreSpec == StoreInit /\ [][StoreNext]_vars

\* One /chat request against an endpoint that answers, raises or stays silent.
AdviseInit == StoreInit

AdviseNext ==
    \/ \E q \in Questions, s \in Snapshots : ChatReceive(q, s)
    \/ BuildPrompts
    \/ CreateCompletion
    \/ \E r \in LlmResponses : LlmRespond(r)
    \/ \E e \in LlmErrors : LlmRaise(e)
    \/ ExtractAnswer
    \/ AskCoachExcept
    \/ ChatReturn

AdviseSpec == AdviseInit /\ [][AdviseNext]_vars

(***************************************************************************)
(* POST /analyze and POST /compare                                         *)
(***************************************************************************)
\* Column names of tables with a date, a description and an amount cell.
StandardColumns == <<"Date", "Description", "Amount">>

AliasColumns == <<" Transaction Date ", "Memo", "Value">>

NoDateColumns == <<"When", "Description", "Amount">>

NoDescriptionColumns == <<"Date", "Note", "Amount">>

NoAmountColumns == <<"Date", "Description", "Total">>

\* Column names of tables with a date, a description, a debit and a credit cell.
BankColumns == <<"Txn Date", "Narration", "Debit", "Credit">>

WithdrawalColumns == <<"Date", "Details", "Withdrawal", "Deposit">>

\* Raw rows under three columns: amounts are texts as a bank export writes them.
RawRows ==
    { <<Str("2024-01-01"), Str("Salary"), Str("50,000")>>,
      <<Str("2024-01-02"), Str("SWIGGY ORDER #123"), Str("(1,234.50)")>>,
      <<Str("2024-01-03"), Str("Cashback refund"), Str("0")>>,
      <<Str("not a date"), Str("Rent"), Str("100")>>,
      <<Str("2024-01-04"), NaNCell, Str("abc")>>,
      <<Str("2024-01-05"), Str("Uber"), Str("-20")>>,
      <<Str("2024-01-06"), Str("Zomato"), Str("(₹1,234.50)")>>,
      <<Str("2024-01-07"), Str("Refund"), Str("-5")>> }

\* Raw rows under four columns: debit and credit are numeric columns.
BankRows ==
    { <<Str("2024-01-01"), Str("Rent"), Num(100000), NaNCell>>,
      <<Str("2024-01-02"), Str("Salary"), NaNCell, Num(5000000)>>,
      <<Str("2024-01-03"), Str("Reversal"), Num(0), Num(50000)>>,
      <<Str("not a date"), Str("Fee"), Num(50), NaNCell>> }

\* Everyday transactions in date order: a small salary, rent, a food order,
\* a ride and a large purchase six weeks later.
StatementRows ==
    << <<Str("2024-01-01"), Str("Salary"), Num(10000)>>,
       <<Str("2024-01-02"), Str("Rent"), Num(100000)>>,
       <<Str("2024-01-03"), Str("SWIGGY ORDER #123"), Num(5000)>>,
       <<Str("2024-01-10"), Str("Uber"), Num(25000)>>,
       <<Str("2024-02-15"), Str("Amazon"), Num(500000)>> >>

\* The sequences of at most n elements of a set.
SeqsUpTo(set, n) == UNION {[1..k -> set] : k \in 0..n}

\* count copies of row.
RECURSIVE Repeat(_, _)
Repeat(row, count) == IF count = 0 THEN <<>> ELSE <<row>> \o Repeat(row, count - 1)

\* The statement holding counts[k] copies of the k-th statement row.
RECURSIVE StatementOf(_, _)
StatementOf(counts, k) ==
    IF k > Len(StatementRows) THEN <<>>
    ELSE Repeat(StatementRows[k], counts[k]) \o StatementOf(counts, k + 1)

\* A file without a single column: pd.read_csv raises EmptyDataError on it.
EmptyFile == Table(<<>>, <<>>)

\* The files a client uploads to /analyze.
AnalyzeFiles ==
    {EmptyFile}
    \cup {Table(c, r) : c \in {StandardColumns, AliasColumns, NoDateColumns,
                              NoDescriptionColumns, NoAmountColumns},
                        r \in SeqsUpTo(RawRows, MaxRawRows)}
    \cup {Table(c, r) : c \in {BankColumns, WithdrawalColumns},
                        r \in SeqsUpTo(BankRows, MaxRawRows)}
    \cup {Table(StandardColumns, StatementOf(counts, 1)) :
             counts \in {n \in [1..Len(StatementRows) -> 0..MaxRows] :
                            SumSeq(n) \in 1..MaxRows}}

\* The files a client uploads to /compare.
CompareFiles ==
    { Table(StandardColumns, <<StatementRows[1], StatementRows[2]>>),
      Table(StandardColumns, <<StatementRows[1], StatementRows[3], StatementRows[4]>>),
      Table(NoDateColumns, <<StatementRows[1]>>),
      Table(StandardColumns, <<<<Str("not a date"), Str("Rent"), Str("100")>>>>),
      Table(BankColumns, <<<<Str("2024-01-01"), Str("Rent"), Num(100000), NaNCell>>>>) }

\* pd.read_csv: EmptyDataError is a ValueError.
read_csv(file) ==
    IF file.columns = <<>>
    THEN Fail("ValueError", "No columns to parse from file")
    ELSE Ok(file)

\* The summary compare_periods takes of one labeled frame.
PeriodSummary(df) ==
    [income |-> SumAmounts(Incomes(df)),
     expenses |-> SumAmounts(Expenses(df)),
     needs |-> SumAmounts(Labeled(df, "need")),
     wants |-> SumAmounts(Labeled(df, "want"))]

\* An exception leaves the try block of the handler running request j.
Raising(j, r) == [j EXCEPT !.pc = "except", !.raised = r.raised, !.message = r.message]

JobRaise(r) == job' = Raising(job, r)

\* The status of the except clauses: analyze_transactions maps ValueError to
\* 400 and any other exception to 500, compare_periods maps every exception
\* to 500.
ErrorStatus(endpoint, raised) ==
    IF endpoint = "analyze" THEN StatusOf(raised) ELSE 500

\* The detail of the HTTPException.
ErrorDetail(endpoint, raised, message) ==
    IF endpoint = "analyze" /\ raised # "ValueError"
    THEN "Failed to process transactions: " \o message
    ELSE message

\* The request of a handler that has just been called with its files.
Received(endpoint, files) ==
    [JobIdle EXCEPT !.pc = "read", !.endpoint = endpoint, !.files = files, !.at = 1]

\* df = pd.read_csv(io.BytesIO(contents))
ReadStep(j) ==
    LET r == read_csv(j.files[j.at])
    IN  IF r.raised # "" THEN Raising(j, r)
        ELSE [j EXCEPT !.pc = "clean", !.df = <<r.value>>]

\* df_clean = clean_transactions(df)
CleanStep(j) ==
    LET r == clean_transactions(j.df[1])
    IN  IF r.raised # "" THEN Raising(j, r)
        ELSE [j EXCEPT !.pc = "classify", !.df_clean = r.value]

\* df_labeled = classify_spending(df_clean); compare_periods goes on to its
\* second file after the first.
ClassifyStep(j) ==
    [j EXCEPT
        !.labeled = Append(@, classify_spending(j.df_clean)),
        !.pc = IF j.endpoint = "analyze" THEN "budget"
               ELSE IF j.at = 1 THEN "read" ELSE "summaries",
        !.at = IF j.endpoint = "compare" /\ j.at = 1 THEN 2 ELSE @]

\* plan = generate_budget_plan(df_labeled)
BudgetStep(j) ==
    LET r == generate_budget_plan(j.labeled[1])
    IN  IF r.raised # "" THEN Raising(j, r)
        ELSE [j EXCEPT !.pc = "modules", !.next = 1,
                       !.plan = DictSet(DictSet(DictSet(DictSet(<<>>,
                           "summary", r.value.summary),
                           "categories", r.value.categories),
                           "weekly_series", r.value.weekly_series),
                           "flags", r.value.flags)]

\* plan[key] = module(df_labeled), for the next key.
FeatureStep(j) ==
    LET r == RunModule(PlanKeys[j.next], j.labeled[1])
    IN  IF r.raised # "" THEN Raising(j, r)
        ELSE [j EXCEPT !.next = @ + 1,
                       !.plan = DictSet(@, PlanKeys[j.next], r.value)]

\* return plan
ReturnStep(j) == [j EXCEPT !.pc = "done", !.status_code = 200, !.body = j.plan]

\* compare_periods: the two summaries and their differences are returned.
ComparisonStep(j) ==
    LET summary1 == PeriodSummary(j.labeled[1])
        summary2 == PeriodSummary(j.labeled[2])
    IN  [j EXCEPT
            !.pc = "done", !.status_code = 200,
            !.body = <<[period1 |-> summary1, period2 |-> summary2,
                        changes |->
                          [income_change |-> summary2.income - summary1.income,
                           expenses_change |-> summary2.expenses - summary1.expenses,
                           needs_change |-> summary2.needs - summary1.needs,
                           wants_change |-> summary2.wants - summary1.wants],
                        message |-> "Comparison complete"]>>]

\* except ...: raise HTTPException(status_code, detail)
ExceptStep(j) ==
    [j EXCEPT
        !.pc = "done",
        !.status_code = ErrorStatus(j.endpoint, j.raised),
        !.detail = ErrorDetail(j.endpoint, j.raised, j.message)]

\* The next step of the handler running request j, by its position.
Advance(j) ==
    CASE j.pc = "read" -> ReadStep(j)
      [] j.pc = "clean" -> CleanStep(j)
      [] j.pc = "classify" -> ClassifyStep(j)
      [] j.pc = "budget" -> BudgetStep(j)
      [] j.pc = "modules" /\ j.next <= Len(PlanKeys) -> FeatureStep(j)
      [] j.pc = "modules" /\ j.next > Len(PlanKeys) -> ReturnStep(j)
      [] j.pc = "summaries" -> ComparisonStep(j)
      [] j.pc = "except" -> ExceptStep(j)

\* POST /analyze arrives with its file.
AnalyzeReceive(file) ==
    /\ job.pc = "idle"
    /\ job' = Received("analyze", <<file>>)
    /\ UNCHANGED <<user_challenges, now, response, chat>>

\* POST /compare arrives with its two files.
CompareReceive(file1, file2) ==
    /\ job.pc = "idle"
    /\ job' = Received("compare", <<file1, file2>>)
    /\ UNCHANGED <<user_challenges, now, response, chat>>

\* df = pd.read_csv(io.BytesIO(contents))
ReadCsv ==
    /\ job.pc = "read"
    /\ job' = ReadStep(job)
    /\ UNCHANGED <<user_challenges, now, response, chat>>

\* df_clean = clean_transactions(df)
CleanTransactions ==
    /\ job.pc = "clean"
    /\ job' = CleanStep(job)
    /\ UNCHANGED <<user_challenges, now, response, chat>>

\* df_labeled = classify_spending(df_clean); compare_periods goes on to its
\* second file after the first.
ClassifySpending ==
    /\ job.pc = "classify"
    /\ job' = ClassifyStep(job)
    /\ UNCHANGED <<user_challenges, now, response, chat>>

\* plan = generate_budget_plan(df_labeled)
GenerateBudgetPlan ==
    /\ job.pc = "budget"
    /\ job' = BudgetStep(job)
    /\ UNCHANGED <<user_challenges, now, response, chat>>

\* plan[key] = module(df_labeled), for the next key.
AddFeature ==
    /\ job.pc = "modules"
    /\ job.next <= Len(PlanKeys)
    /\ job' = FeatureStep(job)
    /\ UNCHANGED <<user_challenges, now, response, chat>>

\* return plan
ReturnPlan ==
    /\ job.pc = "modules"
    /\ job.next > Len(PlanKeys)
    /\ job' = ReturnStep(job)
    /\ UNCHANGED <<user_challenges, now, response, chat>>

\* compare_periods: the two summaries and their differences are returned.
ReturnComparison ==
    /\ job.pc = "summaries"
    /\ job' = ComparisonStep(job)
    /\ UNCHANGED <<user_challenges, now, response, chat>>

\* except ...: raise HTTPException(status_code, detail)
RaiseHTTPException ==
    /\ job.pc = "except"
    /\ job' = ExceptStep(job)
    /\ UNCHANGED <<user_challenges, now, response, chat>>

\* One upload to /analyze or /compare, processed to its response.
AnalyzeInit == StoreInit

AnalyzeNext ==
    \/ \E f \in AnalyzeFiles : AnalyzeReceive(f)
    \/ \E f1 \in CompareFiles, f2 \in CompareFiles : CompareReceive(f1, f2)
    \/ ReadCsv
    \/ CleanTransactions
    \/ ClassifySpending
    \/ GenerateBudgetPlan
    \/ AddFeature
    \/ ReturnPlan
    \/ ReturnComparison
    \/ RaiseHTTPException

AnalyzeSpec == AnalyzeInit /\ [][AnalyzeNext]_vars

(***************************************************************************)
(* Two /analyze requests in flight next to the challenge endpoints          *)
(***************************************************************************)
\* The two invocations of analyze_transactions.  The handler awaits only
\* file.read(), so between any two of its steps the event loop may run steps
\* of the other invocation and whole challenge handlers.
Invocations == {"first", "second"}

\* The uploads: a statement that passes every module, a statement of one
\* expense, and a table without a date column.
ConcurrentFiles ==
    { Table(StandardColumns, StatementRows),
      Table(StandardColumns, <<StatementRows[2]>>),
      Table(NoDateColumns, <<StatementRows[1]>>) }

\* The challenge the clients start, complete and delete meanwhile.
ConcurrentUser == "u1"

ConcurrentChallenge == "daily_limit"

ConcurrentData == [target |-> <<DailyLimitTarget>>, wellTyped |-> TRUE]

\* Invocation i of analyze_transactions is called with its file.
Invoke(i, file) ==
    /\ job[i].pc = "idle"
    /\ job' = [job EXCEPT ![i] = Received("analyze", <<file>>)]
    /\ UNCHANGED <<user_challenges, now, response, chat>>

\* Invocation i takes its next step.
Proceed(i) ==
    /\ job[i].pc \notin {"idle", "done"}
    /\ job' = [job EXCEPT ![i] = Advance(job[i])]
    /\ UNCHANGED <<user_challenges, now, response, chat>>

ConcurrentInit ==
    /\ user_challenges = <<>>
    /\ now = 0
    /\ response = NoResponse
    /\ chat = ChatIdle
    /\ job = [i \in Invocations |-> JobIdle]

ConcurrentNext ==
    \/ \E i \in Invocations, f \in ConcurrentFiles : Invoke(i, f)
    \/ \E i \in Invocations : Proceed(i)
    \/ StartChallenge(ConcurrentUser, ConcurrentChallenge, ConcurrentData)
    \/ UpdateChallengeProgress(ConcurrentUser, ConcurrentChallenge, DailyLimitTarget)
    \/ DeleteChallenge(ConcurrentUser, ConcurrentChallenge)

ConcurrentSpec == ConcurrentInit /\ [][ConcurrentNext]_vars


(***************************************************************************)
(* Challenge requests in flight: two requests for one pair are received    *)
(* before either handler runs.  The handlers of main.py are coroutines     *)
(* without an await, so the event loop runs each from its first statement  *)
(* to its return before it starts another.                                 *)
(***************************************************************************)
\* The requests: a start, a progress below and at the target, a delete.
RaceRequests ==
    {[op |-> "start", value |-> 0], [op |-> "progress", value |-> 0],
     [op |-> "progress", value |-> DailyLimitTarget], [op |-> "delete", value |-> 0]}

\* No request in slot i.
SlotIdle ==
    [pc |-> "idle", op |-> "", value |-> 0, status_code |-> 0, challenge |-> <<>>,
     with |-> {}]

\* The service receives a request for the pair; it is no longer the request
\* the other slot's handler ran beside.
Arrive(i, request) ==
    /\ job[i].pc \in {"idle", "done"}
    /\ job' = [j \in Invocations |->
                 IF j = i
                 THEN [SlotIdle EXCEPT !.pc = "received", !.op = request.op,
                                       !.value = request.value]
                 ELSE [job[j] EXCEPT !.with = @ \ {i}]]
    /\ UNCHANGED <<user_challenges, now, response, chat>>

\* What the handler of a request does to the store and what it answers.
Handled(request) ==
    CASE request.op = "start" ->
           LET r == start_challenge(user_challenges, ConcurrentUser, ConcurrentChallenge,
                                    ConcurrentData, now + 1)
           IN  [store |-> r.store, status_code |-> StatusOf(r.raised),
                detail |-> r.message, challenge |-> r.value,
                stamped |-> r.raised = ""]
      [] request.op = "progress" ->
           LET r == update_challenge_progress(user_challenges, ConcurrentUser,
                                              ConcurrentChallenge, request.value, now + 1)
           IN  [store |-> r.store, status_code |-> StatusOf(r.raised),
                detail |-> r.message, challenge |-> r.value,
                stamped |-> r.raised = "" /\ r.value[1].status = COMPLETED]
      [] request.op = "delete" ->
           LET r == delete_challenge(user_challenges, ConcurrentUser, ConcurrentChallenge)
           IN  [store |-> r.store, status_code |-> IF r.value THEN 200 ELSE 404,
                detail |-> IF r.value THEN "" ELSE "Challenge not found",
                challenge |-> <<>>, stamped |-> FALSE]

\* The event loop runs the handler of the request in slot i to its return.
Handle(i) ==
    LET h == Handled(job[i])
    IN  /\ job[i].pc = "received"
        /\ h.stamped => now < MaxClock
        /\ user_challenges' = h.store
        /\ now' = IF h.stamped THEN now + 1 ELSE now
        /\ job' = [job EXCEPT ![i] =
                      [@ EXCEPT !.pc = "done", !.status_code = h.status_code,
                                !.challenge = h.challenge,
                                !.with = {j \in Invocations \ {i} :
                                             job[j].pc = "received"}]]
        /\ response' = Response(job[i].op, ConcurrentUser, ConcurrentChallenge,
                                <<job[i].value>>, h.status_code, h.detail,
                                h.challenge, NoLists)
        /\ UNCHANGED chat

RaceInit ==
    /\ user_challenges = <<>>
    /\ now = 0
    /\ response = NoResponse
    /\ chat = ChatIdle
    /\ job = [i \in Invocations |-> SlotIdle]

RaceNext ==
    \/ \E i \in Invocations, request \in RaceRequests : Arrive(i, request)
    \/ \E i \in Invocations : Handle(i)

RaceSpec == RaceInit /\ [][RaceNext]_vars

(***************************************************************************)
(* The Classifier on its own: classify_spending applied to a small frame   *)
(***************************************************************************)
\* Words of descriptions: a keyword of each rule, one in capitals, one that
\* two rules share ("gas"), an income keyword and a word no rule knows.
Vocabulary ==
    {"rent", "grocery", "SWIGGY", "uber", "gas", "wifi", "doctor", "netflix",
     "amazon", "school", "salary", "xyz"}

\* The words of a sequence joined by single spaces.
RECURSIVE JoinWords(_)
JoinWords(words) ==
    IF words = <<>> THEN ""
    ELSE IF Len(words) = 1 THEN words[1]
    ELSE words[1] \o " " \o JoinWords(Tail(words))

Descriptions == {JoinWords(w) : w \in SeqsUpTo(Vocabulary, MaxWords)}

\* A cleaned row with the given description and direction.
CleanRow(description, is_expense) ==
    [date |-> DaysFromCivil(2024, 1, 1), description |-> description,
     amount |-> 10000, is_expense |-> is_expense]

\* Frames of one row, of a row twice, and of a row with its opposite direction.
ClassifierFrames ==
    UNION {{ <<CleanRow(d, e)>>,
             <<CleanRow(d, e), CleanRow(d, e)>>,
             <<CleanRow(d, e), CleanRow(d, ~e)>> } :
           d \in Descriptions, e \in BOOLEAN}

\* A cleaned frame is handed to classify_spending.
ClassifierReceive(frame) ==
    /\ job.pc = "idle"
    /\ job' = [job EXCEPT !.pc = "classifier", !.endpoint = "classifier",
                          !.df_clean = frame]
    /\ UNCHANGED <<user_challenges, now, response, chat>>

\* df_labeled = classify_spending(df_clean)
ClassifierReturn ==
    /\ job.pc = "classifier"
    /\ job' = [job EXCEPT !.pc = "done",
                          !.labeled = <<classify_spending(job.df_clean)>>]
    /\ UNCHANGED <<user_challenges, now, response, chat>>

ClassifierInit == StoreInit

ClassifierNext ==
    \/ \E f \in ClassifierFrames : ClassifierReceive(f)
    \/ ClassifierReturn

ClassifierSpec == ClassifierInit /\ [][ClassifierNext]_vars

(***************************************************************************)
(* The modules on ledgers: cleaned frames of regular weeks of spending     *)
(***************************************************************************)
\* The Monday 2024-01-01, first day of the first week of a ledger.
LedgerStart == DaysFromCivil(2024, 1, 1)

\* How far the first and the second week lie below and above the others.
Spreads == {0, 3200, 6400, 12800}

\* The expenses of a week: one want and one, two or eight needs.
PerWeek == {2, 3, 9}

\* The quarters of a week's spending that go to its want.
WantQuarters == {1, 2, 3}

\* The income in eighths of the expenses: none, half, all, 9/8 and 5/4.
IncomeEighths == {0, 4, 8, 9, 10}

\* The days from the first expense to the income.
IncomeOffsets == {0, 6, 7, 30, 31, 480}

\* The descriptions of the needs of a week, in turn.
NeedNames == <<"Rent", "Uber", "Doctor">>

\* The spending of week k.
WeekTotal(k, spread) ==
    16000 + (IF k = 1 THEN 0 - spread ELSE IF k = 2 THEN spread ELSE 0)

\* The rows of week k: the want first, two rows a day.
LedgerWeek(k, per, spread, quarters) ==
    LET total == WeekTotal(k, spread)
        want == (quarters * total) \div 4
    IN  [j \in 1..per |->
            [date |-> LedgerStart + 7 * (k - 1) + (j - 1) \div 2,
             description |-> IF j = 1 THEN "Amazon" ELSE NeedNames[((j - 2) % 3) + 1],
             amount |-> IF j = 1 THEN want ELSE (total - want) \div (per - 1),
             is_expense |-> TRUE]]

RECURSIVE LedgerExpenses(_, _, _, _)
LedgerExpenses(weeks, per, spread, quarters) ==
    IF weeks = 0 THEN <<>>
    ELSE LedgerExpenses(weeks - 1, per, spread, quarters)
         \o LedgerWeek(weeks, per, spread, quarters)

\* A cleaned frame: the expenses of the weeks and one salary, in date order.
Ledger(weeks, per, spread, quarters, eighths, offset) ==
    LET expenses == LedgerExpenses(weeks, per, spread, quarters)
        salary == [date |-> LedgerStart + offset, description |-> "Salary",
                   amount |-> (eighths * SumAmounts(expenses)) \div 8,
                   is_expense |-> FALSE]
    IN  IF eighths = 0 THEN expenses ELSE SortByDate(Append(expenses, salary))

LedgerFrames ==
    {Ledger(weeks, per, spread, quarters, eighths, offset) :
        weeks \in 1..MaxWeeks, per \in PerWeek, spread \in Spreads,
        quarters \in WantQuarters, eighths \in IncomeEighths,
        offset \in IncomeOffsets}

\* analyze_transactions holds the cleaned frame of its upload.
LedgerReceive(frame) ==
    /\ job.pc = "idle"
    /\ job' = [JobIdle EXCEPT !.pc = "classify", !.endpoint = "analyze",
                              !.at = 1, !.df_clean = frame]
    /\ UNCHANGED <<user_challenges, now, response, chat>>

\* No module raises on a ledger, so the except clauses are never entered.
LedgerInit == StoreInit

LedgerNext ==
    \/ \E frame \in LedgerFrames : LedgerReceive(frame)
    \/ ClassifySpending
    \/ GenerateBudgetPlan
    \/ AddFeature
    \/ ReturnPlan

LedgerSpec == LedgerInit /\ [][LedgerNext]_vars

(***************************************************************************)
(* The modules on profiles: cleaned frames of a few large and many small   *)
(* expenses between two salaries                                           *)
(***************************************************************************)
\* The expense rows of a profile.
ProfileCounts == {5, 6, 9, 10, 12}

\* How many of them are large.
ProfileLarge == {0, 3}

\* The amount of a large expense (a want) and of a small one (a need).
LargeAmounts == {10000, 30000}

SmallAmounts == {100, 2500, 10000}

\* The expenses of one day.
ProfilePerDay == {1, 3}

\* The salary before the first and after the last expense (0: none).
ProfileSalaries == {0, 20000, 45000}

\* Expense i of a profile: the large ones come first or last.
ProfileExpense(i, count, large, large_first, big, small, per_day) ==
    LET is_large == IF large_first THEN i <= large ELSE i > count - large
    IN  [date |-> LedgerStart + (i - 1) \div per_day,
         description |-> IF is_large THEN "Amazon" ELSE "Rent",
         amount |-> IF is_large THEN big ELSE small,
         is_expense |-> TRUE]

Salary(date, amount) ==
    IF amount = 0 THEN <<>>
    ELSE <<[date |-> date, description |-> "Salary", amount |-> amount,
            is_expense |-> FALSE]>>

\* A cleaned frame in date order.
Profile(count, large, large_first, big, small, per_day, before, after) ==
    Salary(LedgerStart - 1, before)
    \o [i \in 1..count |->
           ProfileExpense(i, count, large, large_first, big, small, per_day)]
    \o Salary(LedgerStart + (count - 1) \div per_day + 1, after)

ProfileFrames ==
    {Profile(count, large, large_first, big, small, per_day, before, after) :
        count \in ProfileCounts, large \in ProfileLarge, large_first \in BOOLEAN,
        big \in LargeAmounts, small \in SmallAmounts, per_day \in ProfilePerDay,
        before \in ProfileSalaries, after \in ProfileSalaries}

\* analyze_transactions holds the cleaned frame of its upload.
ProfileReceive(frame) ==
    /\ job.pc = "idle"
    /\ job' = [JobIdle EXCEPT !.pc = "classify", !.endpoint = "analyze",
                              !.at = 1, !.df_clean = frame]
    /\ UNCHANGED <<user_challenges, now, response, chat>>

\* No module raises on a profile, so the except clauses are never entered.
ProfileInit == StoreInit

ProfileNext ==
    \/ \E frame \in ProfileFrames : ProfileReceive(frame)
    \/ ClassifySpending
    \/ GenerateBudgetPlan
    \/ AddFeature
    \/ ReturnPlan

ProfileSpec == ProfileInit /\ [][ProfileNext]_vars

(***************************************************************************)
(* Claims about the challenge store (checked under StoreSpec)              *)
(***************************************************************************)
Pairs == UserIds \X ChallengeIds

\* The record of every pair, as get_challenge reports it.
Records(uc) == [p \in Pairs |-> get_challenge(uc, p[1], p[2])]

\* Every pair but (u, c) has the same record in the next state.
OthersUnchanged(u, c) ==
    \A p \in Pairs : p # <<u, c>> => Records(user_challenges')[p] = Records(user_challenges)[p]

\* The pair's record before the step blocks a start.
HeldBefore(u, c) ==
    LET before == get_challenge(user_challenges, u, c)
    IN  before # <<>> /\ before[1].status \in {ACTIVE, COMPLETED}

\* The step stored, and answered with, an active record with current 0.
StartedFresh(u, c) ==
    LET after == get_challenge(user_challenges', u, c)
    IN  /\ response'.status_code = 200
        /\ after # <<>>
        /\ response'.challenge = after
        /\ after[1].status = ACTIVE
        /\ after[1].current = 0

\* C2 as stated: start(user, challenge_id, definition) fails whenever the
\* store already holds an active or a completed record for the pair and then
\* leaves the store unchanged; otherwise it stores and returns a record with
\* status active and current 0.
C2_StartAsStated ==
    [][response'.op = "start" =>
         LET u == response'.userId
             c == response'.challengeId
         IN  IF HeldBefore(u, c)
             THEN response'.status_code # 200 /\ user_challenges' = user_challenges
             ELSE StartedFresh(u, c)]_vars

\* C2 amended: start fails whenever the store already holds an active or a
\* completed record for the pair and then leaves the store unchanged; it also
\* fails when the definition's fields do not validate, and then stores no
\* record for the pair and leaves every stored record unchanged; otherwise it
\* stores and returns a record with status active and current 0, leaving the
\* records of all other pairs unchanged.
C2_Start ==
    [][response'.op = "start" =>
         LET u == response'.userId
             c == response'.challengeId
             d == response'.input[1]
         IN  IF HeldBefore(u, c)
             THEN response'.status_code # 200 /\ user_challenges' = user_challenges
             ELSE IF ~d.wellTyped
             THEN /\ response'.status_code # 200
                  /\ Records(user_challenges') = Records(user_challenges)
                  /\ get_challenge(user_challenges', u, c) = <<>>
             ELSE StartedFresh(u, c) /\ OthersUnchanged(u, c)]_vars

\* C2 witness: a start was refused because the pair's record is completed.
C2_Witness ==
    /\ response.op = "start"
    /\ response.status_code = 400
    /\ response.input[1].wellTyped
    /\ get_challenge(user_challenges, response.userId, response.challengeId) # <<>>
    /\ get_challenge(user_challenges, response.userId, response.challengeId)[1].status
           = COMPLETED

\* C3: after a successful progress(user, challenge_id, value) on an active
\* record, the record's current equals value, and its status is completed
\* exactly when value >= target (with completedAt set), otherwise it stays
\* active.
C3_Progress ==
    [][(response'.op = "progress" /\ response'.status_code = 200) =>
         LET u == response'.userId
             c == response'.challengeId
             value == response'.input[1]
             before == get_challenge(user_challenges, u, c)
             after == get_challenge(user_challenges', u, c)
         IN  /\ before # <<>> /\ before[1].status = ACTIVE
             /\ after # <<>> /\ response'.challenge = after
             /\ after[1].current = value
             /\ after[1].target = before[1].target
             /\ after[1].status = COMPLETED <=> value >= before[1].target
             /\ after[1].status = COMPLETED => after[1].completedAt # None
             /\ after[1].status # COMPLETED =>
                    after[1].status = ACTIVE /\ after[1].completedAt = None]_vars

\* C3 witness: a progress update reached a non-zero target exactly and
\* completed the record.
C3_Witness ==
    /\ response.op = "progress"
    /\ response.status_code = 200
    /\ response.challenge[1].status = COMPLETED
    /\ response.challenge[1].target = DailyLimitTarget
    /\ response.challenge[1].current = DailyLimitTarget
    /\ response.challenge[1].completedAt # None

\* The number of positions of list s holding record r.
Occurrences(s, r) == Cardinality({i \in 1..Len(s) : s[i] = r})

\* C4: after any sequence of start/progress/delete operations, list(user)
\* returns every record stored for that user in exactly one of the two lists
\* (active records under active, completed records under completed) and no
\* record of another user; for a user with no records both lists are empty.
C4_List ==
    response.op = "list" =>
        LET u == response.userId
            active == response.lists.activeChallenges
            completed == response.lists.completedChallenges
            stored == {Records(user_challenges)[<<u, c>>][1] :
                          c \in {x \in ChallengeIds : Records(user_challenges)[<<u, x>>] # <<>>}}
        IN  /\ \A r \in stored :
                   /\ Occurrences(active, r) + Occurrences(completed, r) = 1
                   /\ r.status = ACTIVE => Occurrences(active, r) = 1
                   /\ r.status = COMPLETED => Occurrences(completed, r) = 1
            /\ Range(active) \cup Range(completed) \subseteq stored
            /\ \A r \in Range(active) \cup Range(completed) : r.userId = u
            /\ stored = {} => active = <<>> /\ completed = <<>>

\* C4 witness: a list answered with one active and one completed record of
\* the user.
C4_Witness ==
    /\ response.op = "list"
    /\ Len(response.lists.activeChallenges) = 1
    /\ Len(response.lists.completedChallenges) = 1
    /\ response.lists.activeChallenges[1].userId = response.userId
    /\ response.lists.completedChallenges[1].status = COMPLETED

\* What delete(user, challenge_id) answers and does to the store.
DeleteEffect ==
    response'.op = "delete" =>
        LET u == response'.userId
            c == response'.challengeId
            had == get_challenge(user_challenges, u, c) # <<>>
        IN  /\ response'.status_code = 200 <=> had
            /\ response'.status_code # 200 => response'.status_code = 404
            /\ had => /\ get_challenge(user_challenges', u, c) = <<>>
                      /\ OthersUnchanged(u, c)
            /\ ~had => user_challenges' = user_challenges

\* The step is a start for the pair whose record the previous request deleted.
StartAfterDelete ==
    /\ response.op = "delete" /\ response.status_code = 200
    /\ response'.op = "start"
    /\ response'.userId = response.userId
    /\ response'.challengeId = response.challengeId

\* C5 as stated: delete(user, challenge_id) returns true exactly when a
\* record exists for the pair and then removes only that record; it returns
\* false and changes nothing otherwise; after a successful delete (even of a
\* completed challenge) a start for the same pair succeeds again with current
\* reset to 0.
C5_DeleteAsStated ==
    [][/\ DeleteEffect
       /\ StartAfterDelete =>
              StartedFresh(response'.userId, response'.challengeId)]_vars

\* C5 amended: delete(user, challenge_id) returns true exactly when a record
\* exists for the pair and then removes only that record; it returns false
\* and changes nothing otherwise; after a successful delete (even of a
\* completed challenge) a start for the same pair whose definition validates
\* succeeds again with current reset to 0, and one whose definition does not
\* validate fails and stores nothing.
C5_Delete ==
    [][/\ DeleteEffect
       /\ StartAfterDelete =>
              IF response'.input[1].wellTyped
              THEN StartedFresh(response'.userId, response'.challengeId)
              ELSE /\ response'.status_code # 200
                   /\ Records(user_challenges') = Records(user_challenges)]_vars

\* C5 witness: a challenge was started again right after the delete of its
\* completed record (the third timestamp: start, completion, start), the
\* only record in the store.
C5_Witness ==
    /\ response.op = "start"
    /\ response.status_code = 200
    /\ response.challenge[1].startedAt = 3
    /\ response.challenge[1].current = 0
    /\ \A p \in Pairs : p # <<response.userId, response.challengeId>> =>
           Records(user_challenges)[p] = <<>>
    /\ DOMAIN user_challenges = {response.userId}


\* C23: progress(user, challenge_id, value) on a pair that has no record or
\* whose record is completed fails and leaves the store unchanged;
\* consequently a completed record's status, current and completedAt never
\* change through any start or progress operation, and only delete removes
\* it.
C23_CompletedIsFinal ==
    [][\A p \in Pairs :
         LET before == get_challenge(user_challenges, p[1], p[2])
             after == get_challenge(user_challenges', p[1], p[2])
             asked == response'.userId = p[1] /\ response'.challengeId = p[2]
             final == before # <<>> /\ before[1].status = COMPLETED
         IN  /\ (response'.op = "progress" /\ asked /\ (before = <<>> \/ final)) =>
                    /\ response'.status_code = 400
                    /\ user_challenges' = user_challenges
             /\ (final /\ response'.op \in {"start", "progress"}) =>
                    /\ after # <<>>
                    /\ after[1].status = before[1].status
                    /\ after[1].current = before[1].current
                    /\ after[1].completedAt = before[1].completedAt
             /\ (final /\ after # before) =>
                    response'.op = "delete" /\ asked /\ after = <<>>]_vars

\* C23 witness: a progress request on a completed record was refused and the
\* record still holds the value and the stamp of its completion.
C23_Witness ==
    /\ response.op = "progress"
    /\ response.status_code = 400
    /\ response.detail = "Can only update active challenges"
    /\ response.input[1] = 0
    /\ LET held == get_challenge(user_challenges, response.userId, response.challengeId)
       IN  /\ held # <<>>
           /\ held[1].status = COMPLETED
           /\ held[1].current = DailyLimitTarget
           /\ held[1].completedAt # None

\* The records the store holds.
Stored == {Records(user_challenges)[p][1] : p \in {q \in Pairs : Records(user_challenges)[q] # <<>>}}

\* C28: in every reachable state of the challenge store, every stored record
\* has status active or completed (never not_started) and a startedAt value,
\* a record has completedAt set exactly when its status is completed, and
\* every completed record has current >= target.
C28_RecordsWellFormed ==
    \A r \in Stored :
        /\ r.status \in {ACTIVE, COMPLETED}
        /\ r.startedAt # None
        /\ r.completedAt # None <=> r.status = COMPLETED
        /\ r.status = COMPLETED => r.current >= r.target

\* C28 witness: the store holds an active record below its target next to a
\* record completed at its target after it was started.
C28_Witness ==
    /\ \E r \in Stored : /\ r.status = ACTIVE
                         /\ r.current < r.target
                         /\ r.completedAt = None
    /\ \E r \in Stored : /\ r.status = COMPLETED
                         /\ r.current = DailyLimitTarget
                         /\ r.target = DailyLimitTarget
                         /\ r.completedAt > r.startedAt

\* C29: every challenge-store operation on the pair (user, challenge_id),
\* whether it succeeds or fails, leaves the records of every other pair
\* unchanged: records of other users and other challenges of the same user
\* keep their status, current, target and timestamps.
C29_OtherPairsUntouched ==
    [][response'.op \in {"start", "progress", "delete", "list"} =>
         \A p \in Pairs :
             (response'.op = "list" \/ p # <<response'.userId, response'.challengeId>>) =>
                 get_challenge(user_challenges', p[1], p[2])
                     = get_challenge(user_challenges, p[1], p[2])]_vars

\* C29 witness: a record was deleted while the same user's other challenge
\* and a challenge of the other user were stored, both still there.
C29_Witness ==
    /\ response.op = "delete"
    /\ response.status_code = 200
    /\ get_challenge(user_challenges, response.userId, response.challengeId) = <<>>
    /\ \E c \in ChallengeIds : get_challenge(user_challenges, response.userId, c) # <<>>
    /\ \E u \in UserIds \ {response.userId}, c \in ChallengeIds :
           get_challenge(user_challenges, u, c) # <<>>

(***************************************************************************)
(* Claims about the advice collaborator (checked under AdviseSpec)         *)
(***************************************************************************)
\* C6: advise(question, snapshot) never propagates a failure: whatever fails
\* (prompt construction from a malformed snapshot, the LLM call, or
\* extraction of the answer from the response), the caller receives the
\* fixed canned answer text of ask_coach instead of an error; without a
\* failure it receives the stripped content of the response.
C6_AdviseNeverFails ==
    /\ chat.pc # "propagated"
    /\ chat.pc = "done" =>
           /\ chat.status_code = 200
           /\ chat.caught # "" => chat.answer = COACH_FALLBACK
           /\ chat.caught = "" =>
                  chat.answer = Strip(chat.llm_response[1].choices[1].content)

\* C6 witness: the request ended with the canned answer after the prompt
\* could not be built from a malformed snapshot.
C6_Witness ==
    /\ chat.pc = "done"
    /\ chat.caught = "AttributeError"
    /\ chat.snapshot[1].summary = "null"
    /\ chat.call = <<>>
    /\ chat.answer = COACH_FALLBACK

\* C7: the LLM call made by the advice collaborator is invoked with a
\* timeout (so a request whose endpoint never responds still ends with the
\* fallback text): whenever the call is in flight, its request carries one.
C7_CallHasTimeout ==
    chat.pc = "calling" => chat.call[1].timeout # NOT_GIVEN


(***************************************************************************)
(* Claims about the analysis pipeline (checked under AnalyzeSpec)          *)
(***************************************************************************)
\* C1: for every raw table on which clean_transactions succeeds, every row of
\* the cleaned frame has an amount strictly greater than 0 and a valid date,
\* whichever direction branch was taken, raw amounts of 0 included.
C1_CleanedRowsPositive ==
    (job.pc = "classify") =>
        \A i \in 1..Len(job.df_clean) :
            /\ job.df_clean[i].amount > 0
            /\ \E c \in Range(job.df[1].rows) :
                   \E k \in 1..Len(c) :
                       ParseDate(c[k]).ok /\ ParseDate(c[k]).day = job.df_clean[i].date

\* C8: every module is defensive: once the Normalizer and the Classifier have
\* produced the labeled frame of an /analyze request, no module raises, and
\* the response reports the results of all eleven modules.
C8_ModulesDefensive ==
    (job.endpoint = "analyze" /\ job.labeled # <<>>) =>
        /\ job.pc # "except"
        /\ job.pc = "done" =>
              /\ job.status_code = 200
              /\ \A k \in 1..Len(PlanKeys) : DictHas(job.body, PlanKeys[k])

\* The messages of the structural failures: a required column unresolved, or
\* no valid row left after cleaning.
StructuralMessages ==
    {"No date column found in CSV", "No description column found in CSV",
     "No amount column found in CSV", "No valid transactions found after cleaning"}

\* C9: on /analyze and on /compare, a request that hit a structural failure
\* ends in a client error carrying the descriptive message, and a request
\* that ends in a server error hit no structural failure.
C9_StructuralIsClientError ==
    (job.pc = "done" /\ job.message \in StructuralMessages) =>
        /\ job.status_code \in 400..499
        /\ job.detail = job.message

\* C10: the Habits score total lies in [0,100] and each of its five
\* sub-scores lies in [0,20] (the payload holds tenths), for every labeled
\* frame, also when expenses exceed income.
C10_HabitsInRange ==
    DictHas(job.plan, "habits_score") =>
        LET habits == DictVal(job.plan, "habits_score")
        IN  /\ habits.total_score \in 0..1000
            /\ habits.breakdown.consistency \in 0..200
            /\ habits.breakdown.mindfulness \in 0..200
            /\ habits.breakdown.planning \in 0..200
            /\ habits.breakdown.impulse_control \in 0..200
            /\ habits.breakdown.savings_discipline \in 0..200


(***************************************************************************)
(* Claims about the Normalizer (checked under AnalyzeSpec)                 *)
(***************************************************************************)
\* The messages of an unresolved required column.
SchemaMessages ==
    {"No date column found in CSV", "No description column found in CSV",
     "No amount column found in CSV"}

\* The request failed with a schema error.
SchemaError(j) == j.pc = "except" /\ j.message \in SchemaMessages

\* Some column name of the raw table, lower-cased and underscored, is one of
\* the aliases.
Resolves(raw, aliases) ==
    \E i \in 1..Len(raw.columns), k \in 1..Len(aliases) :
        NormalizeName(raw.columns[i]) = aliases[k]

AllResolve(raw) ==
    /\ Resolves(raw, DateAliases)
    /\ Resolves(raw, DescriptionAliases)
    /\ Resolves(raw, AmountAliases)

\* C15 as stated: the Normalizer fails with a schema error, before producing
\* any rows, exactly when no column name matches an accepted alias for date,
\* for description, or for amount.
C15_SchemaErrorAsStated ==
    [][job.pc = "clean" => (SchemaError(job') <=> ~AllResolve(job.df[1]))]_vars

\* C15 amended: on a table with at least one row the Normalizer fails with a
\* schema error, before producing any rows, exactly when no column name
\* matches an accepted alias for date, for description, or for amount; a
\* table without rows fails with the empty-table error whatever its columns.
C15_SchemaError ==
    [][job.pc = "clean" =>
         LET raw == job.df[1]
         IN  /\ raw.rows # <<>> =>
                   /\ SchemaError(job') <=> ~AllResolve(raw)
                   /\ SchemaError(job') => job'.df_clean = job.df_clean
             /\ raw.rows = <<>> =>
                   /\ job'.pc = "except"
                   /\ job'.message = "Empty DataFrame provided"]_vars

\* C15 witness: a table with rows and no description column was refused with
\* the schema error of the description.
C15_Witness ==
    /\ job.pc = "except"
    /\ job.message = "No description column found in CSV"
    /\ job.df # <<>>
    /\ job.df[1].rows # <<>>
    /\ ~Resolves(job.df[1], DescriptionAliases)

\* The messages of a table without a row to work on.
EmptyDatasetMessages ==
    {"Empty DataFrame provided", "No valid transactions found after cleaning"}

\* The rows of the raw table under the columns the aliases resolve to, each
\* with its parsed date and amount.
ParsedRows(raw) ==
    LET df == normalize_column_names(raw)
        date_col == find_matching_column(df, DateAliases)[1]
        desc_col == find_matching_column(df, DescriptionAliases)[1]
        amount_col == find_matching_column(df, AmountAliases)[1]
    IN  [i \in 1..Len(df.rows) |->
            [date |-> ParseDate(Cell(df, df.rows[i], date_col)),
             description |-> DescriptionText(Cell(df, df.rows[i], desc_col)),
             amount |-> parse_amount(Cell(df, df.rows[i], amount_col))]]

\* The rows with a valid date and a valid amount.
ValidRows(parsed) ==
    {i \in 1..Len(parsed) : parsed[i].date.ok /\ parsed[i].amount.ok}

\* The cleaned rows are the valid rows of the raw table, one for one.
KeepsValidRows(parsed, valid, cleaned) ==
    /\ Len(cleaned) = Cardinality(valid)
    /\ \A i \in valid : \E k \in 1..Len(cleaned) :
          /\ cleaned[k].date = parsed[i].date.day
          /\ cleaned[k].description = parsed[i].description
          /\ cleaned[k].amount = Abs(parsed[i].amount.num)

\* C16: on a table whose three columns resolve, the Normalizer keeps one row
\* per input row with a valid date and a valid amount and drops the others
\* without failing, and it fails with an empty-dataset error exactly when no
\* valid row remains.
C16_DropsExactlyInvalidRows ==
    [][(job.pc = "clean" /\ AllResolve(job.df[1])) =>
         LET parsed == ParsedRows(job.df[1])
             valid == ValidRows(parsed)
         IN  IF valid = {}
             THEN /\ job'.pc = "except"
                  /\ job'.raised = "ValueError"
                  /\ job'.message \in EmptyDatasetMessages
             ELSE /\ job'.pc = "classify"
                  /\ KeepsValidRows(parsed, valid, job'.df_clean)]_vars

\* C16 witness: a table of two rows was cleaned to the one row with a valid
\* date and a valid amount.
C16_Witness ==
    /\ job.pc = "classify"
    /\ Len(job.df[1].rows) = 2
    /\ Len(job.df_clean) = 1
    /\ Cardinality(ValidRows(ParsedRows(job.df[1]))) = 1

\* The currency symbols of the amounts: the dollar and the rupee sign.
CurrencySymbols == "$₹"

\* The number an amount text in accounting parentheses encloses, once the
\* currency symbols, commas and white space are removed.
Enclosed(text) ==
    LET bare == RemoveChars(text, CurrencySymbols \o ", ")
    IN  IF Len(bare) >= 2 /\ StartsWith(bare, "(") /\ EndsWith(bare, ")")
        THEN ParseFloat(SubSeq(bare, 2, Len(bare) - 1))
        ELSE [ok |-> FALSE, num |-> 0]

\* C17: an amount text in accounting parentheses is parsed as the negative of
\* the enclosed number (after removing currency symbols, commas and white
\* space), and the row is stored with the positive magnitude: "(1,234.50)"
\* parses to -1234.50 and is stored as 1234.50.
C17_ParenthesesNegate ==
    [][(job.pc = "clean" /\ AllResolve(job.df[1])) =>
         LET df == normalize_column_names(job.df[1])
             date_col == find_matching_column(df, DateAliases)[1]
             desc_col == find_matching_column(df, DescriptionAliases)[1]
             amount_col == find_matching_column(df, AmountAliases)[1]
         IN  \A i \in 1..Len(df.rows) :
                LET cell == Cell(df, df.rows[i], amount_col)
                    enclosed == Enclosed(cell.str)
                IN  (cell.kind = "str" /\ enclosed.ok /\ enclosed.num >= 0) =>
                       /\ parse_amount(cell) = [ok |-> TRUE, num |-> -enclosed.num]
                       /\ ParseDate(Cell(df, df.rows[i], date_col)).ok =>
                              /\ job'.pc = "classify"
                              /\ \E k \in 1..Len(job'.df_clean) :
                                    /\ job'.df_clean[k].description =
                                          DescriptionText(Cell(df, df.rows[i], desc_col))
                                    /\ job'.df_clean[k].amount = enclosed.num]_vars

\* C21: when both a debit-like and a credit-like column are resolved, a
\* cleaned row is an expense exactly when its debit value is present and
\* non-zero, rows carrying only a credit value survive cleaning as
\* non-expense rows, and every stored amount is the positive magnitude of the
\* row's amount.
C21_DebitCreditDirection ==
    [][(job.pc = "clean" /\ AllResolve(job.df[1])
          /\ Resolves(job.df[1], DebitAliases)
          /\ Resolves(job.df[1], CreditAliases)) =>
         LET df == normalize_column_names(job.df[1])
             date_col == find_matching_column(df, DateAliases)[1]
             desc_col == find_matching_column(df, DescriptionAliases)[1]
             debit_col == find_matching_column(df, DebitAliases)[1]
             credit_col == find_matching_column(df, CreditAliases)[1]
             present(cell) == cell.kind = "num" /\ cell.num # 0
         IN  \A i \in 1..Len(df.rows) :
                LET debit == Cell(df, df.rows[i], debit_col)
                    credit == Cell(df, df.rows[i], credit_col)
                    description == DescriptionText(Cell(df, df.rows[i], desc_col))
                IN  (/\ ParseDate(Cell(df, df.rows[i], date_col)).ok
                     /\ (present(debit) \/ present(credit))) =>
                       /\ job'.pc = "classify"
                       /\ \E k \in 1..Len(job'.df_clean) :
                             /\ job'.df_clean[k].description = description
                             /\ job'.df_clean[k].is_expense = present(debit)
                             /\ job'.df_clean[k].amount =
                                   Abs(IF present(debit) THEN debit.num ELSE credit.num)]_vars

\* Whether the description holds one of the income keywords, whatever the case.
HasIncomeKeyword(description) ==
    LET lowered == Lower(description)
    IN  \E k \in 1..Len(income_keywords) : Contains(lowered, income_keywords[k])

\* C22: without debit/credit columns the sign of the raw amount decides the
\* direction only when negative amounts strictly outnumber positive ones
\* (then a row is an expense exactly when its amount was negative); when the
\* counts are equal or positives prevail, every row is an expense except the
\* rows whose description contains an income keyword, whatever the sign.
C22_SignHeuristic ==
    [][(job.pc = "clean" /\ AllResolve(job.df[1])
          /\ ~(Resolves(job.df[1], DebitAliases) /\ Resolves(job.df[1], CreditAliases))) =>
         LET parsed == ParsedRows(job.df[1])
             valid == ValidRows(parsed)
             negatives == Cardinality({i \in valid : parsed[i].amount.num < 0})
             positives == Cardinality({i \in valid : parsed[i].amount.num > 0})
         IN  \A i \in valid : \E k \in 1..Len(job'.df_clean) :
                /\ job'.df_clean[k].date = parsed[i].date.day
                /\ job'.df_clean[k].description = parsed[i].description
                /\ job'.df_clean[k].is_expense =
                      IF negatives > positives
                      THEN parsed[i].amount.num < 0
                      ELSE ~HasIncomeKeyword(parsed[i].description)]_vars

\* C22 witness: with one positive and one negative amount the refund of
\* negative amount was stored as income and the salary too.
C22_Witness ==
    /\ job.pc = "classify"
    /\ Len(job.df_clean) = 2
    /\ \E k \in 1..2 : /\ job.df_clean[k].description = "Refund"
                       /\ ~job.df_clean[k].is_expense
    /\ \E k \in 1..2 : /\ job.df_clean[k].description = "Salary"
                       /\ ~job.df_clean[k].is_expense

(***************************************************************************)
(* Claims about the modules (checked under LedgerSpec)                     *)
(***************************************************************************)
\* The result of a module that has run.
Has(key) == job.pc # "idle" /\ DictHas(job.plan, key)

Result(key) == DictVal(job.plan, key)

\* The frame of the scenario: savings rate exactly 20%, wants ratio 25%,
\* weekly coefficient of variation 0.2 and a buffer of 4 months.
HealthScenario(df) ==
    LET total_income == SumAmounts(Incomes(df))
        total_expenses == SumAmounts(Expenses(df))
        weekly == WeekNumberSums(Expenses(df))
        n == Len(weekly)
        total == SumSeq(weekly) \div 100
        squares == SumSquares([k \in 1..n |-> weekly[k] \div 100])
    IN  /\ total_income > 0
        /\ total_expenses > 0
        /\ 100 * (total_income - total_expenses) = 20 * total_income
        /\ 100 * SumAmounts(Labeled(df, "want")) = 25 * total_expenses
        /\ n >= 2
        /\ 25 * n * (n * squares - total * total) = (n - 1) * total * total
        /\ (total_income - total_expenses) * Max2(30, DaysSpan(df))
              = 4 * 30 * total_expenses

\* The score is the sum of the four factors' points, lies in [0,100] and has
\* the rating of its band.
HealthScoreSound(h) ==
    /\ h.savings_points \in {0, 10, 20, 30}
    /\ h.wants_points \in {0, 5, 15, 25}
    /\ h.consistency_points \in {0, 10, 20}
    /\ h.buffer_points \in {5, 15, 25}
    /\ h.score = h.savings_points + h.wants_points
                   + h.consistency_points + h.buffer_points
    /\ h.score \in 0..100
    /\ h.rating = "Excellent" <=> h.score >= 80
    /\ h.rating = "Good" <=> h.score \in 60..79
    /\ h.rating = "Fair" <=> h.score \in 40..59
    /\ h.rating = "Needs Improvement" <=> h.score < 40

\* C18 as stated: the health score is the sum of the points of its four
\* factors, lies in [0,100] and maps to the rating bands; a dataset with
\* savings rate exactly 20%, wants ratio 25%, weekly CV 0.2 and a buffer of
\* 4 months scores 100 with rating Excellent.
C18_HealthScoreAsStated ==
    Has("health_score") =>
        /\ HealthScoreSound(Result("health_score"))
        /\ HealthScenario(job.labeled[1]) =>
              /\ Result("health_score").score = 100
              /\ Result("health_score").rating = "Excellent"

\* C18 amended: the health score is the sum of the points of its four
\* factors, lies in [0,100] and maps to the rating bands; a dataset of more
\* than 7 expense rows with savings rate exactly 20%, wants ratio 25%,
\* weekly CV 0.2 and a buffer of 4 months scores 100 with rating Excellent,
\* and the same dataset with at most 7 expense rows scores 80: the weekly
\* consistency factor gives no points then.
C18_HealthScore ==
    Has("health_score") =>
        /\ HealthScoreSound(Result("health_score"))
        /\ HealthScenario(job.labeled[1]) =>
              /\ Result("health_score").rating = "Excellent"
              /\ Result("health_score").score =
                    IF Len(Expenses(job.labeled[1])) > 7 THEN 100 ELSE 80

\* C18 witness: the scenario on nine expense rows scored 100.
C18_Witness ==
    /\ Has("health_score")
    /\ HealthScenario(job.labeled[1])
    /\ Len(Expenses(job.labeled[1])) = 9
    /\ Result("health_score").score = 100
    /\ Result("health_score").rating = "Excellent"

\* Latest date minus earliest date of a non-empty frame, in days.
SpanOf(df) ==
    LET later(a, b) == IF a >= b THEN a ELSE b
        earlier(a, b) == IF a <= b THEN a ELSE b
        latest[i \in 1..Len(df)] ==
            IF i = 1 THEN df[1].date ELSE later(latest[i - 1], df[i].date)
        earliest[i \in 1..Len(df)] ==
            IF i = 1 THEN df[1].date ELSE earlier(earliest[i - 1], df[i].date)
    IN  latest[Len(df)] - earliest[Len(df)]

\* C19: for every non-empty labeled frame whose date span is below 7 days the
\* prediction module returns only the need-more-data message and no numeric
\* projection; for a span of 7 days or more it returns a numeric projection
\* (thirty times the daily average of the expenses) whose confidence is
\* Medium exactly when the span exceeds 30 days, else Low.
C19_PredictionBySpan ==
    Has("predictions") =>
        LET r == Result("predictions")
            df == job.labeled[1]
            span == SpanOf(df)
        IN  IF span < 7
            THEN r = [prediction |-> "Need more data (at least 2 weeks)"]
            ELSE /\ DOMAIN r = {"predicted_monthly_expenses", "daily_average", "confidence"}
                 /\ r.predicted_monthly_expenses \in Nat
                 /\ 2 * Abs(r.predicted_monthly_expenses * span
                              - 30 * SumAmounts(Expenses(df))) <= span
                 /\ r.confidence = (IF span > 30 THEN "Medium" ELSE "Low")

\* C19 witness: frames spanning exactly 7 and exactly 30 days got a numeric
\* projection of low confidence.
C19_Witness ==
    /\ Has("predictions")
    /\ SpanOf(job.labeled[1]) \in {7, 30}
    /\ Result("predictions").confidence = "Low"
    /\ Result("predictions").predicted_monthly_expenses > 0

\* The place of a flag's kind in the order of the list.
FlagRank(kind) ==
    CASE kind \in {"overspend", "savings"} -> 1
      [] kind \in {"high_wants", "low_wants"} -> 2
      [] kind = "concentration" -> 3
      [] kind = "volatility" -> 4
      [] kind = "emergency_fund" -> 5
      [] kind = "keep_tracking" -> 6

\* C20: the flags list of the Budget Aggregator is never empty and its
\* entries appear in the order savings, wants-share, concentration,
\* volatility, emergency-fund; whenever savings_potential < 0 the first flag
\* is the overspend warning carrying the magnitude of the shortfall; the
\* generic fallback flag is present exactly when no other flag fired, and it
\* is the only flag then.
C20_FlagsOrdered ==
    Has("flags") =>
        LET flags == Result("flags")
            summary == Result("summary")
            others == {i \in 1..Len(flags) : flags[i].kind # "keep_tracking"}
        IN  /\ flags # <<>>
            /\ \A i \in 1..Len(flags), k \in 1..Len(flags) :
                  i < k => FlagRank(flags[i].kind) < FlagRank(flags[k].kind)
            /\ summary.savings_potential < 0 =>
                  flags[1] = Flag("overspend",
                                  summary.total_expenses - summary.total_income)
            /\ summary.savings_potential >= 0 =>
                  \A i \in 1..Len(flags) : flags[i].kind # "overspend"
            /\ others = {} <=> flags = <<Flag("keep_tracking", 0)>>
            /\ others # {} => \A i \in 1..Len(flags) : i \in others

\* C20 witness: a frame with expenses in four categories and an income equal
\* to them got the generic note as its only flag.
C20_Witness ==
    /\ Has("flags")
    /\ Result("flags") = <<Flag("keep_tracking", 0)>>
    /\ Result("summary").total_expenses > 0
    /\ Len(Result("categories")) = 4

\* The length of the longest run of consecutive calendar days within a set
\* of days (0 for no day).
LongestRun(days) ==
    LET runs == {n \in 1..Cardinality(days) :
                    \E d \in days : \A k \in 0..(n - 1) : (d + k) \in days}
    IN  IF runs = {} THEN 0 ELSE MaxOf(runs)

\* C24: for every non-empty labeled frame pattern detection reports as
\* longest_spending_streak the length of the longest run of consecutive
\* calendar days that each contain at least one expense; a frame with no
\* expense row has streak 0 and several expenses on one day count as one day.
C24_LongestStreak ==
    (Has("patterns") /\ job.labeled # <<>> /\ job.labeled[1] # <<>>) =>
        Result("patterns").longest_spending_streak
            = LongestRun(Dates(Expenses(job.labeled[1])))

Personas ==
    {"The Consistent Planner", "The Spontaneous Spender", "The Frequent Shopper",
     "The Bulk Buyer", "The Balanced Spender"}

\* The persona the classifier returns for a cleaned frame.
PersonaOf(frame) ==
    calculate_financial_personality(classify_spending(frame)).value.personality

\* C25: the personality classifier returns 'New User' for fewer than 10 rows
\* and otherwise exactly one of the five personas; each of the five personas
\* is the result for at least one labeled frame of 10 or more rows.
C25_Personas ==
    Has("personality") =>
        IF Len(job.labeled[1]) < 10
        THEN Result("personality").personality = "New User"
        ELSE /\ Result("personality").personality \in Personas
             /\ \A persona \in Personas : \E frame \in ProfileFrames :
                    Len(frame) >= 10 /\ PersonaOf(frame) = persona

\* No frame makes the classifier return the Bulk Buyer.
BulkBuyerUnreached ==
    Has("personality") => Result("personality").personality # "The Bulk Buyer"

\* 50 + change / 2 + improvement / 2 of the two changes a result reports,
\* brought into the range from 0 to 100.
ScoreOf(m) ==
    LET c == m.spending_change
        s == m.savings_improvement
        num == 100 * c.den * s.den + c.num * s.den + s.num * c.den
        den == 2 * c.den * s.den
    IN  IF num < 0 THEN [num |-> 0, den |-> 1]
        ELSE IF num > 100 * den THEN [num |-> 100, den |-> 1]
        ELSE [num |-> num, den |-> den]

\* What the momentum module does below 7 rows, how it computes its score
\* from 7 rows on, and the range of the score (scores are in tenths).
MomentumScored(m, df) ==
    IF Len(df) < 7
    THEN m.momentum = "neutral" /\ m.score = 500
    ELSE /\ m.first_half \o m.second_half = SortByDate(df)
         /\ 2 * Abs(10 * ScoreOf(m).num - m.score * ScoreOf(m).den) <= ScoreOf(m).den
         /\ m.score \in 0..1000

\* C26 as stated: for 7 or more rows the momentum module splits the
\* date-sorted rows into two halves of equal size with every row in exactly
\* one half, and its score equals 50 + spending change/2 + savings-rate
\* change/2 clamped to [0,100]; for fewer than 7 rows it returns the neutral
\* default score 50; the score is within [0,100] in every case.
C26_MomentumAsStated ==
    Has("momentum") =>
        /\ MomentumScored(Result("momentum"), job.labeled[1])
        /\ Len(job.labeled[1]) >= 7 =>
               Len(Result("momentum").first_half) = Len(Result("momentum").second_half)

\* C26 amended: for 7 or more rows the momentum module splits the n
\* date-sorted rows into a first half of n div 2 rows and a second half of
\* the remaining rows (of equal size exactly when n is even, else the second
\* half holds one row more) with every row in exactly one half, and its score
\* equals 50 + spending change/2 + savings-rate change/2 clamped to [0,100]
\* and rounded to one decimal; for fewer than 7 rows it returns the neutral
\* default score 50; the score is within [0,100] in every case.
C26_Momentum ==
    Has("momentum") =>
        /\ MomentumScored(Result("momentum"), job.labeled[1])
        /\ Len(job.labeled[1]) >= 7 =>
               /\ Len(Result("momentum").first_half) = Len(job.labeled[1]) \div 2
               /\ Len(Result("momentum").second_half) - Len(Result("momentum").first_half)
                      = Len(job.labeled[1]) % 2

\* C26 witness: a frame of 7 rows was split into 3 and 4 rows and its score,
\* below 0 as computed, was reported as 0.
C26_Witness ==
    /\ Has("momentum")
    /\ Len(job.labeled[1]) = 7
    /\ Len(Result("momentum").first_half) = 3
    /\ Len(Result("momentum").second_half) = 4
    /\ Result("momentum").score = 0
    /\ Result("momentum").spending_change.num < -100 * Result("momentum").spending_change.den

\* A row is labeled need or want exactly when it is an expense and income
\* exactly when it is not, and so the needs and the wants of the budget
\* summary add up to its expenses.
LabelsFollowDirection ==
    /\ \A i \in 1..Len(job.labeled[1]) :
          LET row == job.labeled[1][i]
          IN  /\ row.need_vs_want \in {"need", "want"} <=> row.is_expense
              /\ row.need_vs_want = "income" <=> ~row.is_expense
    /\ Has("summary") =>
          Result("summary").total_needs + Result("summary").total_wants
              = Result("summary").total_expenses

\* The sum of the three percentages of the benchmark module, in tenths.
SplitSum == 
    Result("benchmarks").your_split.needs + Result("benchmarks").your_split.wants
        + Result("benchmarks").your_split.savings

\* C27 as stated: in every labeled frame a row is labeled need or want
\* exactly when it is an expense and income exactly when it is not, so the
\* Budget Aggregator's total_needs + total_wants always equals total_expenses
\* and the benchmark module's needs%, wants% and savings% always sum to 100.
C27_LabelsAndSplitAsStated ==
    (job.pc # "idle" /\ job.labeled # <<>>) =>
        /\ LabelsFollowDirection
        /\ Has("benchmarks") =>
               /\ "your_split" \in DOMAIN Result("benchmarks")
               /\ SplitSum = 1000

\* C27 amended: in every labeled frame a row is labeled need or want exactly
\* when it is an expense and income exactly when it is not, so the Budget
\* Aggregator's total_needs + total_wants always equals total_expenses; the
\* benchmark module reports percentages exactly when the total income is not
\* 0, and then its needs%, wants% and savings%, each rounded to one decimal,
\* sum to 99.9, 100.0 or 100.1 (to 100 before rounding).
C27_LabelsAndSplit ==
    (job.pc # "idle" /\ job.labeled # <<>>) =>
        /\ LabelsFollowDirection
        /\ Has("benchmarks") =>
               /\ "your_split" \in DOMAIN Result("benchmarks")
                      <=> SumAmounts(Incomes(job.labeled[1])) # 0
               /\ "your_split" \in DOMAIN Result("benchmarks") =>
                      SplitSum \in {999, 1000, 1001}

\* C27 witness: the benchmark module reported three percentages that sum to
\* 99.9 for a frame whose needs and wants add up to its expenses.
C27_Witness ==
    /\ Has("benchmarks")
    /\ "your_split" \in DOMAIN Result("benchmarks")
    /\ SplitSum = 999
    /\ Result("summary").total_needs > 0
    /\ Result("summary").total_wants > 0
    /\ Result("summary").total_needs + Result("summary").total_wants
           = Result("summary").total_expenses

(***************************************************************************)
(* Claims about concurrent invocations (checked under ConcurrentSpec)      *)
(***************************************************************************)
\* What the client of a finished request receives.
Answer(j) == [status_code |-> j.status_code, detail |-> j.detail, body |-> j.body]

\* C14: the report of an analysis invocation is a function of the uploaded
\* rows only: two invocations that finished on identical files hold identical
\* answers, however their steps were interleaved with each other and with
\* the challenge handlers, and no step of an invocation changes the
\* challenge store or its clock.
C14_ReportDependsOnUploadOnly ==
    [][ /\ job' # job => /\ user_challenges' = user_challenges
                         /\ now' = now
        /\ \A i \in Invocations, k \in Invocations :
              ( /\ job'[i].pc = "done"
                /\ job'[k].pc = "done"
                /\ job'[i].files = job'[k].files )
              => Answer(job'[i]) = Answer(job'[k]) ]_vars

\* C14 witness: both invocations returned the report of the same statement
\* while the store held a challenge.
C14_Witness ==
    /\ \A i \in Invocations :
          /\ job[i].pc = "done"
          /\ job[i].status_code = 200
          /\ DictHas(job[i].body, "challenges")
    /\ job["first"].files = job["second"].files
    /\ user_challenges # <<>>

(***************************************************************************)
(* Claims about requests in flight (checked under RaceSpec)                *)
(***************************************************************************)
\* Both requests are answered, and the handler of i ran while the request of
\* j was waiting.
RanBeside(i, j) ==
    /\ i # j
    /\ job[i].pc = "done"
    /\ job[j].pc = "done"
    /\ j \in job[i].with

\* C30: when several start and progress requests for the same pair are
\* handled concurrently, each store operation takes effect atomically: of
\* two concurrent start requests at most one succeeds, and a progress update
\* or completion is never lost or overwritten by a concurrent start that
\* re-creates the record.
C30_RequestsAtomic ==
    \A i \in Invocations, j \in Invocations :
        RanBeside(i, j) =>
            /\ (job[i].op = "start" /\ job[j].op = "start") =>
                   ~(job[i].status_code = 200 /\ job[j].status_code = 200)
            /\ (job[i].op = "progress" /\ job[i].status_code = 200
                  /\ job[j].op = "start") =>
                   /\ job[j].status_code = 400
                   /\ get_challenge(user_challenges, ConcurrentUser, ConcurrentChallenge)
                          = job[i].challenge
            /\ (job[i].op = "start" /\ job[i].status_code = 200
                  /\ job[j].op = "progress") =>
                   /\ job[j].status_code = 200
                   /\ get_challenge(user_challenges, ConcurrentUser, ConcurrentChallenge)
                          = job[j].challenge
                   /\ job[j].challenge[1].current = job[j].value
                   /\ job[j].challenge[1].startedAt = job[i].challenge[1].startedAt

\* C30 witness: a progress to the target and a start were in flight
\* together; the progress completed the record, the start was refused and
\* the store holds the completed record.
C30_Witness ==
    \E i \in Invocations, j \in Invocations :
        /\ RanBeside(i, j)
        /\ job[i].op = "progress"
        /\ job[i].status_code = 200
        /\ job[j].op = "start"
        /\ job[j].status_code = 400
        /\ get_challenge(user_challenges, ConcurrentUser, ConcurrentChallenge) # <<>>
        /\ get_challenge(user_challenges, ConcurrentUser, ConcurrentChallenge)[1].status
               = COMPLETED

\* C30 second case: two starts were in flight together for a pair without a
\* record; the first was accepted and the second refused.
TwoStartsRaced ==
    \E i \in Invocations, j \in Invocations :
        /\ RanBeside(i, j)
        /\ job[i].op = "start" /\ job[i].status_code = 200
        /\ job[j].op = "start" /\ job[j].status_code = 400

(***************************************************************************)
(* Claims about the Classifier (checked under ClassifierSpec)              *)
(***************************************************************************)
\* The rows of every labeled frame of the request.
LabeledRows == UNION {Range(job.labeled[k]) : k \in 1..Len(job.labeled)}

\* Whether a rule keyword occurs in the description, whatever the case.
KnownToRule(description, k) ==
    \E w \in Range(CategoryRules[k].words) : Contains(Lower(description), w)

\* C11: the Classifier's result depends only on (description, is_expense):
\* rows with an equal description and direction carry equal labels, each
\* frame keeps its rows in place, and every non-expense row is labeled
\* (income, income) whatever its description contains.
C11_ClassifierPure ==
    /\ \A k \in 1..Len(job.labeled) :
          /\ Len(job.labeled[k]) = Len(job.df_clean)
          /\ \A i \in 1..Len(job.df_clean) :
                /\ job.labeled[k][i].description = job.df_clean[i].description
                /\ job.labeled[k][i].is_expense = job.df_clean[i].is_expense
    /\ \A r \in LabeledRows, q \in LabeledRows :
          (r.description = q.description /\ r.is_expense = q.is_expense)
              => (r.category = q.category /\ r.need_vs_want = q.need_vs_want)
    /\ \A r \in LabeledRows :
          ~r.is_expense => (r.category = "income" /\ r.need_vs_want = "income")

\* A non-expense row whose description holds a rule keyword was labeled
\* income, next to an expense row of the same description.
C11_Witness ==
    /\ job.pc = "done" /\ job.endpoint = "classifier"
    /\ \E r \in LabeledRows, q \in LabeledRows :
          /\ ~r.is_expense /\ KnownToRule(r.description, 1)
          /\ r.category = "income"
          /\ q.is_expense /\ q.description = r.description /\ q.category = "rent"

\* C12: an expense is labeled by the first rule, in the order rent, grocery,
\* eating-out, transport, bills, health, entertainment, shopping, education,
\* that has a keyword in the description whatever the case, and (other, want)
\* when no rule has one; "swiggy" without a rent or grocery keyword gives
\* (food, want), a transport and a bills keyword together (transport, need).
C12_FirstRuleWins ==
    \A r \in LabeledRows :
        r.is_expense =>
            LET lowered == Lower(r.description)
                matched == {k \in 1..Len(CategoryRules) :
                               \E w \in Range(CategoryRules[k].words) : Contains(lowered, w)}
                label == <<r.category, r.need_vs_want>>
            IN  /\ \A k \in matched :
                      (\A j \in matched : k <= j)
                          => label = <<CategoryRules[k].category,
                                       CategoryRules[k].need_vs_want>>
                /\ matched = {} => label = <<"other", "want">>
                /\ (Contains(lowered, "swiggy") /\ matched \cap {1, 2} = {})
                      => label = <<"food", "want">>
                /\ ({4, 5} \subseteq matched /\ matched \cap {1, 2, 3} = {})
                      => label = <<"transport", "need">>
                /\ [k \in 1..Len(CategoryRules) |-> CategoryRules[k].category]
                   = <<"rent", "food", "food", "transport", "bills", "health",
                       "entertainment", "shopping", "education">>

\* An expense written in capitals whose second word the transport and the
\* bills rule share was labeled by the eating-out rule, the first to match.
C12_Witness ==
    /\ job.pc = "done" /\ job.endpoint = "classifier"
    /\ \E r \in LabeledRows :
          /\ r.is_expense /\ r.description = "SWIGGY gas"
          /\ r.category = "food" /\ r.need_vs_want = "want"


(***************************************************************************)
(* Claims about the Budget Aggregator and the modules (AnalyzeSpec)        *)
(***************************************************************************)
\* The labeled frame of the /analyze request and its plan so far.
Planned == job.endpoint = "analyze" /\ DictHas(job.plan, "categories")

RECURSIVE SumEntries(_)
SumEntries(entries) ==
    IF entries = <<>> THEN 0 ELSE Head(entries).amount + SumEntries(Tail(entries))

\* C13: for every non-empty labeled frame the amounts of the categories list
\* add up to total_expenses, and the list holds an entry for exactly the
\* categories of the expense rows, none for a non-expense row.
C13_CategoriesSumToExpenses ==
    Planned =>
        LET categories == DictVal(job.plan, "categories")
            df == job.labeled[1]
        IN  /\ SumEntries(categories) = DictVal(job.plan, "summary").total_expenses
            /\ SumEntries(categories)
               = SumSeq([i \in 1..Len(df) |-> IF df[i].is_expense THEN df[i].amount ELSE 0])
            /\ {categories[k].name : k \in 1..Len(categories)}
               = {df[i].category : i \in {n \in 1..Len(df) : df[n].is_expense}}
            /\ \A k \in 1..Len(categories) : categories[k].name # "income"
            /\ \A k \in 1..Len(categories), n \in 1..Len(categories) :
                  categories[k].name = categories[n].name => k = n

\* A plan over income rows and expenses of two categories.
C13_Witness ==
    /\ Planned
    /\ Len(DictVal(job.plan, "categories")) >= 2
    /\ DictVal(job.plan, "summary").total_income > 0
    /\ DictVal(job.plan, "summary").total_expenses > 0

=============================================================================
